---- MODULE Spec2Model ----
(***************************************************************************)
(* Model of the analytics engine of the inventory application:            *)
(* inventory/utils.py (sales speed, variant projection, restock alerts),   *)
(* inventory/views.py (product_detail and its cache use) and               *)
(* inventory/signals.py (cache invalidation).                              *)
(*                                                                         *)
(* Dates are day numbers; day 0 is a Monday and the first day of a month.  *)
(* A real number (a sales speed) is an exact fraction <<num, den>> with    *)
(* den > 0: the code's floats are these values up to rounding error.       *)
(***************************************************************************)
EXTENDS Integers, Sequences, FiniteSets, TLC

VARIABLES config, snapshots, sales, order_items, today, cache, speed_call,
          proj_call, alerts_call, call

vars == <<config, snapshots, sales, order_items, today, cache, speed_call,
          proj_call, alerts_call, call>>

-----------------------------------------------------------------------------
(* Bounds of the model *)

\* weeks of history in which the sales-speed data is dated
MaxWeek == 4
\* rows per table in the sales-speed specification
MaxRows == 2
\* largest quantity or count stored in a row
MaxQty == 2
\* weeks by which a window is extended when two windows are compared
MaxExtend == 2
\* days in a month of the model's calendar (every month has the same length)
DaysPerMonth == 30

-----------------------------------------------------------------------------
(* Optional values: Python's None, and a present value *)

None == [some |-> FALSE]

Some(x) == [some |-> TRUE, val |-> x]

-----------------------------------------------------------------------------
(* Catalogue: products and their variants (ProductVariant.product) *)

Products == {"p1", "p2", "p3"}
Variants == {"v1", "v2", "v3", "v4", "v5", "v6", "v7", "v8"}

ProductOf(v) == IF v \in {"v1", "v2"} THEN "p1" ELSE IF v = "v3" THEN "p2" ELSE "p3"

\* the rows of Group by name
GroupNames == {"core", "extra"}

\* the catalogue settings: Product.decommissioned (the set of products that
\* have it), Product.groups, the Group rows, the groups of the first
\* RestockSetting (None when there is no RestockSetting), and
\* Product.retail_price in cents (None when null)
DefaultConfig ==
    [decommissioned  |-> {"p2"},
     product_groups  |-> [p \in Products |-> {"core"}],
     groups          |-> {"core"},
     restock_setting |-> None,
     retail_price    |-> [p \in Products |-> None]]

\* Product.decommissioned
Decommissioned == config.decommissioned

\* _restock_groups(): the groups of the RestockSetting, else the group "core"
restock_groups ==
    IF config.restock_setting.some THEN config.restock_setting.val
    ELSE {g \in config.groups : g = "core"}

\* the products of filter(groups__in=groups)
RestockGroupProducts ==
    {p \in Products : config.product_groups[p] \cap restock_groups # {}}

VariantsOf(p) == {v \in Variants : ProductOf(v) = p}

\* a null foreign key (Sale.referrer)
NoReferrer == "none"

-----------------------------------------------------------------------------
(* Calendar *)

DaysPerWeek == 7

\* date - timedelta(days=date.weekday())
WeekStart(d) == d - (d % DaysPerWeek)

\* date.replace(day=1): a month is named by its first day
MonthStart(d) == d - (d % DaysPerMonth)

\* date + relativedelta(months=k)
AddMonths(d, k) == d + k * DaysPerMonth

-----------------------------------------------------------------------------
(* Exact fractions *)

Frac(n, d) == <<n, d>>

FracIsZero(f) == f[1] = 0

FracIsPos(f) == f[1] > 0

FracIsNeg(f) == f[1] < 0

FracEq(f, g) == f[1] * g[2] = g[1] * f[2]

FracLt(f, g) == f[1] * g[2] < g[1] * f[2]

\* round(x) of Python 3 for x = n / d: to the nearest integer, a tie to the even one
RoundHalfEven(n, d) ==
    LET q == n \div d
        r == n - q * d
    IN  IF 2 * r < d THEN q
        ELSE IF 2 * r > d THEN q + 1
        ELSE IF q % 2 = 0 THEN q ELSE q + 1

\* round(x, 1): x to the nearest tenth, as a fraction over 10
Round1(f) == Frac(RoundHalfEven(10 * f[1], f[2]), 10)

\* math.ceil(x) for x = n / d
Ceil(n, d) == 0 - ((0 - n) \div d)

Max(a, b) == IF a >= b THEN a ELSE b

-----------------------------------------------------------------------------
(* Generic sequence helpers *)

RECURSIVE SumSeq(_)
SumSeq(s) == IF s = <<>> THEN 0 ELSE Head(s) + SumSeq(Tail(s))

RECURSIVE MapQty(_)
MapQty(s) == IF s = <<>> THEN <<>> ELSE <<Head(s).sold_quantity>> \o MapQty(Tail(s))

\* variant.snapshots.all() / variant.sales.all(): the variant's rows, in table order
RowsOf(table, v) == SelectSeq(table, LAMBDA r : r.v = v)

\* list.sort(key=lambda x: x[0]): a stable insertion of e into a sorted list
RECURSIVE InsertByDate(_, _)
InsertByDate(sorted, e) ==
    IF sorted = <<>> THEN <<e>>
    ELSE IF sorted[Len(sorted)].date <= e.date THEN Append(sorted, e)
    ELSE Append(InsertByDate(SubSeq(sorted, 1, Len(sorted) - 1), e), sorted[Len(sorted)])

RECURSIVE SortByDate(_)
SortByDate(s) ==
    IF s = <<>> THEN <<>>
    ELSE InsertByDate(SortByDate(SubSeq(s, 1, Len(s) - 1)), s[Len(s)])

-----------------------------------------------------------------------------
(* Sales speed: calculate_variant_sales_speed_details *)

\* WEEKS_PER_MONTH = 365.25 / 12 / 7 = 487 / 112
WeeksPerMonthNum == 487
WeeksPerMonthDen == 112

\* events: the snapshots, then the sales, sorted by date (stable)
RECURSIVE SnapshotEvents(_)
SnapshotEvents(rows) ==
    IF rows = <<>> THEN <<>>
    ELSE <<[date |-> Head(rows).date, typ |-> "snapshot",
            qty |-> Head(rows).inventory_count]>> \o SnapshotEvents(Tail(rows))

RECURSIVE SaleEvents(_)
SaleEvents(rows) ==
    IF rows = <<>> THEN <<>>
    ELSE <<[date |-> Head(rows).date, typ |-> "sale",
            qty |-> Head(rows).sold_quantity]>> \o SaleEvents(Tail(rows))

SpeedEvents(v) ==
    SortByDate(SnapshotEvents(RowsOf(snapshots, v)) \o SaleEvents(RowsOf(sales, v)))

\* the while loop of one week: consume the events dated at or before the week's end
RECURSIVE ConsumeEvents(_, _, _)
ConsumeEvents(events, we, st) ==
    IF st.idx <= Len(events) /\ events[st.idx].date <= we
    THEN LET e == events[st.idx]
         IN  ConsumeEvents(events, we,
                 IF e.typ = "snapshot"
                 THEN [idx |-> st.idx + 1, current_inv |-> e.qty, seen_snapshot |-> TRUE]
                 ELSE [idx |-> st.idx + 1, current_inv |-> st.current_inv - e.qty,
                       seen_snapshot |-> st.seen_snapshot])
    ELSE st

\* inventory_by_week of the weeks i.. of the window, the i-th week starting at
\* start_week + (i - 1) weeks
RECURSIVE InventoryByWeek(_, _, _, _, _)
InventoryByWeek(events, start_week, window_weeks, i, st) ==
    IF i > window_weeks THEN <<>>
    ELSE LET ws  == start_week + DaysPerWeek * (i - 1)
             st2 == ConsumeEvents(events, ws + 6, st)
             inv == IF st2.seen_snapshot
                    THEN Some(IF st2.current_inv > 0 THEN st2.current_inv ELSE 0)
                    ELSE None
         IN  <<inv>> \o InventoryByWeek(events, start_week, window_weeks, i + 1, st2)

\* a variant of the totals that leaves the current week out
SalesByWeekMutant(rows, ws, start_week, week_start_today) ==
    IF start_week <= ws /\ ws < week_start_today
    THEN SumSeq(MapQty(SelectSeq(rows, LAMBDA s : WeekStart(s.date) = ws)))
    ELSE 0

\* sales_by_week[ws]: units of the sales whose week starts at ws, inside the window
SalesByWeek(rows, ws, start_week, week_start_today) ==
    IF start_week <= ws /\ ws <= week_start_today
    THEN SumSeq(MapQty(SelectSeq(rows, LAMBDA s : WeekStart(s.date) = ws)))
    ELSE 0

\* a variant of the rule that counts every week of the window
WeekCountedMutant(sold, inv) == TRUE

\* a variant of had_stock that holds whenever the stock is known
HadStockMutant(sold, inv) == IF inv = None THEN sold > 0 ELSE inv.val >= 0

\* had_stock of a week with `sold` units sold and inventory_by_week `inv`
HadStock(sold, inv) == IF inv = None THEN sold > 0 ELSE inv.val > 0

\* the week is counted: `if sold or had_stock`
WeekCounted(sold, inv) == sold # 0 \/ HadStock(sold, inv)

\* the last loop over week_starts: `total` and `periods` of the weeks i..
RECURSIVE CountWeeks(_, _, _, _, _)
CountWeeks(rows, inventory, start_week, week_start_today, i) ==
    IF i > Len(inventory) THEN [total |-> 0, periods |-> 0]
    ELSE LET sold == SalesByWeek(rows, start_week + DaysPerWeek * (i - 1), start_week,
                                 week_start_today)
             rest == CountWeeks(rows, inventory, start_week, week_start_today, i + 1)
         IN  IF WeekCounted(sold, inventory[i])
             THEN [total |-> rest.total + sold, periods |-> rest.periods + 1]
             ELSE rest

speed_for_window(v, window_weeks, tdy) ==
    LET week_start_today == WeekStart(tdy)
        start_week == week_start_today - DaysPerWeek * (window_weeks - 1)
        inventory  == InventoryByWeek(SpeedEvents(v), start_week, window_weeks, 1,
                          [idx |-> 1, current_inv |-> 0, seen_snapshot |-> FALSE])
        counted    == CountWeeks(RowsOf(sales, v), inventory, start_week,
                                 week_start_today, 1)
    IN  IF counted.periods = 0
        THEN [speed |-> Frac(0, 1), total_sold |-> 0, periods |-> 0]
        ELSE [speed |-> Frac(counted.total * WeeksPerMonthNum,
                             counted.periods * WeeksPerMonthDen),
              total_sold |-> counted.total, periods |-> counted.periods]

\* `fallback_weeks and fallback_weeks > weeks`
UseFallback(result, weeks, fallback_weeks) ==
    FracIsZero(result.speed) /\ fallback_weeks # 0 /\ fallback_weeks > weeks

calculate_variant_sales_speed_details(v, weeks, tdy, fallback_weeks) ==
    LET result == speed_for_window(v, weeks, tdy)
    IN  IF UseFallback(result, weeks, fallback_weeks)
        THEN speed_for_window(v, fallback_weeks, tdy)
        ELSE result

calculate_variant_sales_speed(v, weeks, tdy, fallback_weeks) ==
    calculate_variant_sales_speed_details(v, weeks, tdy, fallback_weeks).speed

-----------------------------------------------------------------------------
(* Rows drawn for the sales-speed specification *)

\* one snapshot date a week (Wednesday); the sale of an even week precedes it
\* (Monday), the sale of an odd week follows it (Friday)
SpeedSnapshotDates == {DaysPerWeek * w + 2 : w \in 0..(MaxWeek - 1)}

SpeedSaleDates == {DaysPerWeek * w + (IF w % 2 = 0 THEN 0 ELSE 4) : w \in 0..(MaxWeek - 1)}

\* IntegerField: signed
Quantities == (0 - 1)..MaxQty

SnapshotRows(vs, dates, counts) ==
    [v : vs, date : dates, inventory_count : counts]

SaleRows(vs, dates, qtys) ==
    [v : vs, date : dates, sold_quantity : qtys, order_number : {"o1"},
     referrer : {NoReferrer}]

SeqsUpTo(S, n) == UNION {[1..k -> S] : k \in 0..n}

NoCall == [op |-> "none"]

EmptyCache == [p \in Products |-> [k \in {"safe", "proj", "health"} |-> None]]

InitSpeed ==
    /\ snapshots \in SeqsUpTo(SnapshotRows({"v1"}, SpeedSnapshotDates, {0, MaxQty}), MaxRows)
    /\ sales \in SeqsUpTo(SaleRows({"v1"}, SpeedSaleDates, Quantities), MaxRows)
    /\ order_items = <<>>
    /\ today = DaysPerWeek * MaxWeek - 1
    /\ config = DefaultConfig
    /\ cache = EmptyCache
    /\ speed_call = NoCall
    /\ proj_call = NoCall
    /\ alerts_call = NoCall
    /\ call = NoCall

\* a call of calculate_variant_sales_speed_details with explicit arguments
CallSpeedDetails(v, weeks, tdy, fallback_weeks) ==
    /\ speed_call' = [op |-> "speed", v |-> v, weeks |-> weeks, today |-> tdy,
                      fallback_weeks |-> fallback_weeks,
                      window |-> IF UseFallback(speed_for_window(v, weeks, tdy),
                                                weeks, fallback_weeks)
                                 THEN fallback_weeks ELSE weeks,
                      result |-> calculate_variant_sales_speed_details(
                                     v, weeks, tdy, fallback_weeks)]
    /\ UNCHANGED <<config, call, snapshots, sales, order_items, today, cache, proj_call,
                   alerts_call>>

\* no call made yet: each behaviour makes one call on the rows drawn
NoCallYet ==
    /\ speed_call = NoCall
    /\ proj_call = NoCall
    /\ alerts_call = NoCall
    /\ call = NoCall
    /\ cache = EmptyCache

NextSpeed ==
    \E weeks \in 1..MaxWeek, fallback_weeks \in 0..MaxWeek,
       tdy \in {DaysPerWeek * MaxWeek - 1} :
        NoCallYet /\ CallSpeedDetails("v1", weeks, tdy, fallback_weeks)

SpecSpeed == InitSpeed /\ [][NextSpeed]_vars

-----------------------------------------------------------------------------
(* Properties of the sales speed *)

\* the weeks (by their Monday) of a window of n weeks ending at the week of tdy
WindowWeeks(n, tdy) == {WeekStart(tdy) - DaysPerWeek * k : k \in 0..(n - 1)}

\* units sold in the week starting at ws, read from the sale rows
UnitsSoldInWeek(v, ws) ==
    LET idx == {i \in 1..Len(sales) : sales[i].v = v /\ ws <= sales[i].date
                                                /\ sales[i].date <= ws + 6}
        RECURSIVE Sum(_)
        Sum(S) == IF S = {} THEN 0
                  ELSE LET i == CHOOSE j \in S : TRUE
                       IN  sales[i].sold_quantity + Sum(S \ {i})
    IN  Sum(idx)

\* the stock known at the end of the week starting at ws: the count of the last
\* snapshot at or before the week's end less the units sold since, never below 0;
\* None when no snapshot is that old
KnownStockAtWeekEnd(v, ws) ==
    LET we    == ws + 6
        snapI == {i \in 1..Len(snapshots) : snapshots[i].v = v /\ snapshots[i].date <= we}
        last  == CHOOSE i \in snapI : \A j \in snapI :
                     \/ snapshots[j].date < snapshots[i].date
                     \/ (snapshots[j].date = snapshots[i].date /\ j <= i)
        since == {i \in 1..Len(sales) : sales[i].v = v /\ sales[i].date <= we
                                          /\ sales[i].date >= snapshots[last].date}
        RECURSIVE Sum(_)
        Sum(S) == IF S = {} THEN 0
                  ELSE LET i == CHOOSE j \in S : TRUE
                       IN  sales[i].sold_quantity + Sum(S \ {i})
        level == snapshots[last].inventory_count - Sum(since)
    IN  IF snapI = {} THEN None ELSE Some(IF level > 0 THEN level ELSE 0)

\* a week whose end-of-week stock is known to be 0 and in which nothing was sold
ZeroStockZeroSaleWeek(v, ws) ==
    KnownStockAtWeekEnd(v, ws) = Some(0) /\ UnitsSoldInWeek(v, ws) = 0

\* C1: a week of the window with known stock 0 and no sale is counted in neither
\* periods nor total_sold, and a window extended (backwards or forwards) by
\* zero-stock, zero-sale weeks only returns the same speed, total and periods.
C1_ZeroWeeksNotCounted ==
    speed_call.op = "speed" =>
        LET v   == speed_call.v
            n   == speed_call.window
            tdy == speed_call.today
            r   == speed_call.result
        IN  /\ r.periods <= Cardinality({ws \in WindowWeeks(n, tdy) :
                                            ~ZeroStockZeroSaleWeek(v, ws)})
            /\ r.periods = 0 => r.total_sold = 0
            /\ \A k \in 1..MaxExtend :
                   (\A ws \in WindowWeeks(n + k, tdy) \ WindowWeeks(n, tdy) :
                        ZeroStockZeroSaleWeek(v, ws))
                   => speed_for_window(v, n + k, tdy) = speed_for_window(v, n, tdy)
            /\ \A k \in 1..MaxExtend :
                   (\A ws \in WindowWeeks(n + k, tdy + DaysPerWeek * k)
                                \ WindowWeeks(n, tdy) :
                        ZeroStockZeroSaleWeek(v, ws))
                   => speed_for_window(v, n + k, tdy + DaysPerWeek * k)
                          = speed_for_window(v, n, tdy)

\* a call whose window holds a zero-stock, zero-sale week beside counted weeks
\* with sales, and whose window can be extended by one more such week
C1_Witness ==
    /\ speed_call.op = "speed"
    /\ speed_call.result.periods > 0
    /\ speed_call.result.total_sold > 0
    /\ \E ws \in WindowWeeks(speed_call.window, speed_call.today) :
           ZeroStockZeroSaleWeek(speed_call.v, ws)
    /\ ZeroStockZeroSaleWeek(speed_call.v,
           WeekStart(speed_call.today) - DaysPerWeek * speed_call.window)
    /\ ZeroStockZeroSaleWeek(speed_call.v, WeekStart(speed_call.today) + DaysPerWeek)

\* C2: the speed returned by calculate_variant_sales_speed is >= 0 for every
\* stored set of (signed) snapshot and sale rows and every anchor and window.
C2_SpeedNonNegative ==
    speed_call.op = "speed" => ~FracIsNeg(speed_call.result.speed)

\* the rows of v that record units (a sold quantity other than 0)
UnitSales(v) == {i \in 1..Len(sales) : sales[i].v = v /\ sales[i].sold_quantity # 0}

\* C3: when the primary window yields speed 0 and the only sales lie outside it
\* but inside the fallback window, the call with the larger fallback returns a
\* speed > 0, and a call with fallback_weeks <= weeks returns 0.
C3_FallbackPositive ==
    (/\ speed_call.op = "speed"
     /\ FracIsZero(speed_for_window(speed_call.v, speed_call.weeks, speed_call.today).speed)
     /\ UnitSales(speed_call.v) # {}
     /\ \A i \in UnitSales(speed_call.v) :
            /\ WeekStart(sales[i].date) \notin WindowWeeks(speed_call.weeks, speed_call.today)
            /\ WeekStart(sales[i].date)
                  \in WindowWeeks(speed_call.fallback_weeks, speed_call.today))
    => /\ FracIsPos(speed_call.result.speed)
       /\ \A fb \in 0..speed_call.weeks :
              FracIsZero(calculate_variant_sales_speed(
                             speed_call.v, speed_call.weeks, speed_call.today, fb))

-----------------------------------------------------------------------------
(* Variant projection: compute_variant_projection *)

\* defaults of calculate_variant_sales_speed: weeks=26, fallback_weeks=52
DefaultWeeks == 26
DefaultFallbackWeeks == 52

\* months of history shown at most, and months projected ahead
HistoryMonths == 12
HorizonMonths == 12

MinOf(S) == CHOOSE x \in S : \A y \in S : x <= y

MaxOf(S) == CHOOSE x \in S : \A y \in S : y <= x

\* Sale.objects.filter(variant__in=variants).aggregate(first=Min("date"))
FirstSaleDate(p) ==
    LET ds == {sales[i].date : i \in {j \in 1..Len(sales) : ProductOf(sales[j].v) = p}}
    IN  IF ds = {} THEN None ELSE Some(MinOf(ds))

\* the month axis: from start_month to current_month + 12 months
ProjectionStartMonth(p, tdy) ==
    LET current_month   == MonthStart(tdy)
        first_sale      == FirstSaleDate(p)
        start_month     == IF first_sale # None
                           THEN MonthStart(AddMonths(first_sale.val, 0 - 1))
                           ELSE current_month
        last_year_month == AddMonths(current_month, 0 - HistoryMonths)
    IN  IF start_month < last_year_month THEN last_year_month ELSE start_month

ProjectionMonths(p, tdy) ==
    LET start_month == ProjectionStartMonth(p, tdy)
        end_month   == AddMonths(MonthStart(tdy), HorizonMonths)
        month_count == (end_month - start_month) \div DaysPerMonth
    IN  [i \in 1..(month_count + 1) |-> AddMonths(start_month, i - 1)]

\* the sum of f[i] over the indices i in S
RECURSIVE SumOver(_, _)
SumOver(S, f) ==
    IF S = {} THEN 0
    ELSE LET i == CHOOSE j \in S : TRUE IN f[i] + SumOver(S \ {i}, f)

\* sales_by_month[mon]
SalesByMonth(v, mon) ==
    LET q == [i \in 1..Len(sales) |-> sales[i].sold_quantity]
    IN  SumOver({i \in 1..Len(sales) : sales[i].v = v /\ MonthStart(sales[i].date) = mon}, q)

\* the month and quantity one OrderItem adds to `restocks`
RestockMonth(oi) ==
    IF oi.date_arrived # None THEN MonthStart(oi.date_arrived.val)
    ELSE MonthStart(oi.date_expected)

RestockQty(oi) ==
    IF oi.date_arrived # None
    THEN (IF oi.actual_quantity # None THEN oi.actual_quantity.val ELSE oi.quantity)
    ELSE oi.quantity

\* restocks[mon]
Restocks(v, mon) ==
    LET q == [i \in 1..Len(order_items) |-> RestockQty(order_items[i])]
    IN  SumOver({i \in 1..Len(order_items) :
                    order_items[i].v = v /\ RestockMonth(order_items[i]) = mon}, q)

\* v.snapshots.filter(date__lte=start_month).order_by("-date").first(), or 0
StockAtStart(v, start_month) ==
    LET idx  == {i \in 1..Len(snapshots) : snapshots[i].v = v
                                           /\ snapshots[i].date <= start_month}
        last == CHOOSE i \in idx : \A j \in idx : snapshots[j].date <= snapshots[i].date
    IN  IF idx = {} THEN 0 ELSE snapshots[last].inventory_count

\* one pass of the loop over months: the level after month m
ProjectionStep(current, m, current_month, restock, sold, speed) ==
    LET withRestock == current + restock
    IN  IF m <= current_month
        THEN Max(RoundHalfEven(withRestock - sold, 1), 0)
        ELSE Max(RoundHalfEven(withRestock * speed[2] - speed[1], speed[2]), 0)

RECURSIVE ProjectionLevels(_, _, _, _, _, _)
ProjectionLevels(v, months, i, current, current_month, speed) ==
    IF i > Len(months) THEN <<>>
    ELSE LET next == ProjectionStep(current, months[i], current_month,
                                    Restocks(v, months[i]), SalesByMonth(v, months[i]),
                                    speed)
         IN  <<next>> \o ProjectionLevels(v, months, i + 1, next, current_month, speed)

\* the speed of v: speed_map[v] when a map is given, else the calculated speed
\* anchored at the first day of the current month
ProjectionSpeed(v, speed_map, tdy) ==
    IF speed_map # None THEN speed_map.val[v]
    ELSE calculate_variant_sales_speed(v, DefaultWeeks, MonthStart(tdy),
                                       DefaultFallbackWeeks)

compute_variant_projection(p, speed_map, tdy) ==
    LET months == ProjectionMonths(p, tdy)
    IN  [months |-> months,
         variant_lines |->
            [v \in VariantsOf(p) |->
                ProjectionLevels(v, months, 1, StockAtStart(v, months[1]),
                                 MonthStart(tdy), ProjectionSpeed(v, speed_map, tdy))]]

-----------------------------------------------------------------------------
(* product_detail: safe stock rows, cached results and the forecast series *)

\* months of snapshots charted (`today - relativedelta(months=18)`), and the
\* forecast steps (`range(1, 18)`)
LookbackMonths == 18
ForecastSteps == 17

\* the annotation latest_inventory: Coalesce(count of the latest snapshot, 0)
LatestInventory(v) ==
    LET idx  == {i \in 1..Len(snapshots) : snapshots[i].v = v}
        last == CHOOSE i \in idx : \A j \in idx : snapshots[j].date <= snapshots[i].date
    IN  IF idx = {} THEN 0 ELSE snapshots[last].inventory_count

\* v.order_items.filter(date_arrived__isnull=True).aggregate(Sum("quantity"))
OnOrderQty(v) ==
    LET q == [i \in 1..Len(order_items) |-> order_items[i].quantity]
    IN  SumOver({i \in 1..Len(order_items) :
                    order_items[i].v = v /\ order_items[i].date_arrived = None}, q)

\* compute_safe_stock: per variant, the fields of its row that the view reads
\* back (current_stock, avg_speed rounded to a tenth, on_order_qty, stock_status)
compute_safe_stock(p, tdy) ==
    [v \in VariantsOf(p) |->
        LET current   == LatestInventory(v)
            avg_speed == calculate_variant_sales_speed(v, DefaultWeeks, tdy,
                                                       DefaultFallbackWeeks)
        IN  [current_stock |-> current,
             avg_speed     |-> Round1(avg_speed),
             on_order_qty  |-> OnOrderQty(v),
             stock_status  |-> IF current = 0 THEN "red"
                               ELSE IF FracIsPos(avg_speed)
                                       /\ current * avg_speed[2] <= 3 * avg_speed[1]
                                    THEN "orange" ELSE "green"]]

\* compute_product_health: the sums it reads from the product's rows (units sold
\* in the last three months, stock on hand)
compute_product_health(p, tdy) ==
    LET q == [i \in 1..Len(sales) |-> sales[i].sold_quantity]
        s == [v \in VariantsOf(p) |-> LatestInventory(v)]
    IN  [total_sold |-> SumOver({i \in 1..Len(sales) :
                                    /\ ProductOf(sales[i].v) = p
                                    /\ sales[i].date >= AddMonths(tdy, 0 - 3)}, q),
         stock      |-> SumOver(VariantsOf(p), s)]

\* the date of the product's last snapshot of the last 18 months, else the
\* start of that period
LastSnapshotDate(p, tdy) ==
    LET ds == {snapshots[i].date : i \in {j \in 1..Len(snapshots) :
                  /\ ProductOf(snapshots[j].v) = p
                  /\ snapshots[j].date >= AddMonths(tdy, 0 - LookbackMonths)}}
    IN  IF ds = {} THEN AddMonths(tdy, 0 - LookbackMonths) ELSE MaxOf(ds)

\* effective_date of a pending OrderItem: date_expected, or a month from today
\* when that date is past
EffectiveDate(oi, tdy) ==
    IF oi.date_expected >= tdy THEN oi.date_expected ELSE AddMonths(tdy, 1)

\* future_orders[month][variant]
FutureOrders(v, month, tdy) ==
    LET q == [i \in 1..Len(order_items) |-> order_items[i].quantity]
    IN  SumOver({i \in 1..Len(order_items) :
                    /\ order_items[i].v = v
                    /\ order_items[i].date_arrived = None
                    /\ MonthStart(EffectiveDate(order_items[i], tdy)) = month}, q)

\* one month of the simulation for one variant, in tenths of a unit: subtract
\* the speed while stock is left, then add the restock of the month
ForecastStep(level, speed10, restock) ==
    (IF level > 0 THEN Max(level - speed10, 0) ELSE level) + 10 * restock

\* initial[v] after each of the months cursor+1 .. cursor+17
RECURSIVE ForecastLevels(_, _, _, _, _, _)
ForecastLevels(v, level, speed10, cursor, i, tdy) ==
    IF i > ForecastSteps THEN <<>>
    ELSE LET next == ForecastStep(level, speed10,
                                  FutureOrders(v, AddMonths(cursor, 1), tdy))
         IN  <<next>> \o ForecastLevels(v, next, speed10, AddMonths(cursor, 1), i + 1, tdy)

\* initial[v] at every point of the series, the starting value first
ForecastVariantLevels(v, row, cursor, tdy) ==
    <<10 * row.current_stock>>
    \o ForecastLevels(v, 10 * row.current_stock, row.avg_speed[1], cursor, 1, tdy)

RECURSIVE ZipAdd(_, _)
ZipAdd(a, b) ==
    IF a = <<>> THEN <<>> ELSE <<Head(a) + Head(b)>> \o ZipAdd(Tail(a), Tail(b))

\* sum(initial.values()) at every point
RECURSIVE ForecastTotals(_, _, _, _)
ForecastTotals(S, safe_stock, cursor, tdy) ==
    IF S = {} THEN [i \in 1..(ForecastSteps + 1) |-> 0]
    ELSE LET v == CHOOSE w \in S : TRUE
         IN  ZipAdd(ForecastVariantLevels(v, safe_stock[v], cursor, tdy),
                    ForecastTotals(S \ {v}, safe_stock, cursor, tdy))

RECURSIVE ForecastPoints(_, _)
ForecastPoints(cursor, totals) ==
    IF totals = <<>> THEN <<>>
    ELSE <<[x |-> cursor, y |-> Frac(Head(totals), 10)]>>
         \o ForecastPoints(AddMonths(cursor, 1), Tail(totals))

\* forecast_data: the points (x: month, y: total stock)
Forecast(p, safe_stock, tdy) ==
    ForecastPoints(MonthStart(LastSnapshotDate(p, tdy)),
                   ForecastTotals(VariantsOf(p), safe_stock,
                                  MonthStart(LastSnapshotDate(p, tdy)), tdy))

\* cache.get(key) is None: compute and cache.set; else use the cached value
CachedOr(entry, computed) == IF entry = None THEN computed ELSE entry.val

\* a variant of the filter that takes every arrival date, a later one too
DeliveredItemsMutant(v, tdy) ==
    {i \in 1..Len(order_items) : order_items[i].v = v
                                 /\ order_items[i].date_arrived # None}

\* OrderItem.objects.filter(product_variant=v, date_arrived__isnull=False,
\* date_arrived__lte=today)
DeliveredItems(v, tdy) ==
    {i \in 1..Len(order_items) : /\ order_items[i].v = v
                                 /\ order_items[i].date_arrived # None
                                 /\ order_items[i].date_arrived.val <= tdy}

\* .order_by("-date_arrived")[:1]: the rows that can come first, any of those
\* that arrived last
FirstByArrival(v, tdy) ==
    {i \in DeliveredItems(v, tdy) :
        \A j \in DeliveredItems(v, tdy) :
            order_items[j].date_arrived.val <= order_items[i].date_arrived.val}

\* Coalesce("actual_quantity", "quantity")
CoalesceQuantity(oi) ==
    IF oi.actual_quantity # None THEN oi.actual_quantity.val ELSE oi.quantity

\* the annotations last_order_qty and last_order_date of variant v, the two
\* subqueries taking the rows i and j first; None without a delivered row
LastOrder(v, tdy, i, j) ==
    IF DeliveredItems(v, tdy) = {}
    THEN [last_order_qty |-> None, last_order_date |-> None]
    ELSE [last_order_qty  |-> Some(CoalesceQuantity(order_items[i])),
          last_order_date |-> Some(order_items[j].date_arrived.val)]

\* the rows the two subqueries can take first for every variant of p (0 for a
\* variant without a delivered row)
LastOrderPicks(p, tdy) ==
    {f \in [VariantsOf(p) -> (0..Len(order_items)) \X (0..Len(order_items))] :
        \A v \in VariantsOf(p) :
            IF DeliveredItems(v, tdy) = {} THEN f[v] = <<0, 0>>
            ELSE f[v][1] \in FirstByArrival(v, tdy) /\ f[v][2] \in FirstByArrival(v, tdy)}

\* the GET handler product_detail(request, product_id): the three results are
\* read from the cache, or computed and stored in it; last_order_qty and
\* last_order_date of the safe stock rows of the response are recorded in call
ProductDetail(p) ==
    LET safe_stock   == CachedOr(cache[p].safe, compute_safe_stock(p, today))
        variant_proj == CachedOr(cache[p].proj, compute_variant_projection(p, None, today))
        health       == CachedOr(cache[p].health, compute_product_health(p, today))
    IN  /\ cache' = [cache EXCEPT ![p] = [safe |-> Some(safe_stock),
                                         proj |-> Some(variant_proj),
                                         health |-> Some(health)]]
        /\ \E pick \in LastOrderPicks(p, today) :
              call' = [op |-> "detail", product |-> p,
                       rows |-> [v \in VariantsOf(p) |->
                                    LastOrder(v, today, pick[v][1], pick[v][2])]]
        /\ UNCHANGED <<config, snapshots, sales, order_items, today, speed_call, proj_call,
                       alerts_call>>

\* the context of the response: `initial` of each variant at every point of the
\* forecast, and forecast_data, from the safe stock rows the handler used
ForecastInitial(p) ==
    [v \in VariantsOf(p) |->
        ForecastVariantLevels(v, cache[p].safe.val[v],
                              MonthStart(LastSnapshotDate(p, today)), today)]

ForecastData(p) == Forecast(p, cache[p].safe.val, today)

\* a call of compute_variant_projection(variants of p, speed_map)
CallVariantProjection(p, speed_map) ==
    /\ proj_call' = [op |-> "proj", p |-> p, speed_map |-> speed_map,
                     speeds |-> [v \in VariantsOf(p) |->
                                    ProjectionSpeed(v, speed_map, today)],
                     result |-> compute_variant_projection(p, speed_map, today)]
    /\ UNCHANGED <<config, call, snapshots, sales, order_items, today, cache, speed_call,
                   alerts_call>>

-----------------------------------------------------------------------------
(* Restock alerts *)

\* a variant of restock_to_6 that rounds the shortfall down
RestockTo6Mutant(avg_speed, latest_inv) ==
    Max((6 * avg_speed[1] - latest_inv * avg_speed[2]) \div avg_speed[2], 0)

\* max(math.ceil(avg_speed * 6 - latest_inventory), 0)
RestockTo6(avg_speed, latest_inv) ==
    Max(Ceil(6 * avg_speed[1] - latest_inv * avg_speed[2], avg_speed[2]), 0)

\* _annotate_variant_stock: the attributes set on one variant
annotate_variant_stock(v, tdy) ==
    LET latest_inv == LatestInventory(v)
        avg_speed  == calculate_variant_sales_speed(v, DefaultWeeks, tdy,
                                                    DefaultFallbackWeeks)
    IN  [latest_inventory |-> latest_inv,
         avg_speed        |-> avg_speed,
         months_left      |-> IF FracIsPos(avg_speed)
                              THEN Some(Frac(latest_inv * avg_speed[2], avg_speed[1]))
                              ELSE None,
         restock_to_6     |-> RestockTo6(avg_speed, latest_inv)]

\* v.months_left is not None and v.months_left < 3
MonthsLeftLow(a) == a.months_left # None /\ FracLt(a.months_left.val, Frac(3, 1))

\* a variant of the rule that is urgent from 20% on
AlertLevelMutant(out_count, low_count, total_variants) ==
    IF 5 * out_count >= total_variants THEN "urgent"
    ELSE IF 2 * low_count >= total_variants THEN "normal"
    ELSE "none"

\* the level of a product with out_count variants out of stock and low_count
\* variants low, of total_variants: out_count / total_variants > 0.2, else
\* low_count / total_variants >= 0.5
AlertLevel(out_count, low_count, total_variants) ==
    IF 5 * out_count > total_variants THEN "urgent"
    ELSE IF 2 * low_count >= total_variants THEN "normal"
    ELSE "none"

\* a variant of the filter that leaves the groups out
EligibleProductMutant(p) == p \notin Decommissioned

\* filter(decommissioned=False, groups__in=groups) on one product
EligibleProduct(p) == p \notin Decommissioned /\ p \in RestockGroupProducts

\* Product.objects.filter(decommissioned=False, groups__in=groups) that have variants
RestockProducts == {p \in Products : EligibleProduct(p) /\ VariantsOf(p) # {}}

\* the variants of a product, each with its annotation (the list `vars`)
RECURSIVE AnnotatedVariants(_, _)
AnnotatedVariants(S, tdy) ==
    IF S = {} THEN <<>>
    ELSE LET v == CHOOSE w \in S : TRUE
         IN  <<[v |-> v, stock |-> annotate_variant_stock(v, tdy)]>>
             \o AnnotatedVariants(S \ {v}, tdy)

RECURSIVE SumRestock(_)
SumRestock(rows) ==
    IF rows = <<>> THEN 0 ELSE Head(rows).stock.restock_to_6 + SumRestock(Tail(rows))

\* the alert of one product, alert_type "none" when the loop skips it
ProductAlert(p, tdy) ==
    LET rows      == AnnotatedVariants(VariantsOf(p), tdy)
        low_count == Cardinality({i \in 1..Len(rows) : MonthsLeftLow(rows[i].stock)})
        out_count == Cardinality({i \in 1..Len(rows) : rows[i].stock.latest_inventory <= 0})
    IN  [product       |-> p,
         variants      |-> rows,
         total_restock |-> SumRestock(rows),
         alert_type    |-> AlertLevel(out_count, low_count, Len(rows))]

\* get_restock_alerts(): the alerts of the products that have one
get_restock_alerts(tdy) ==
    {a \in {ProductAlert(p, tdy) : p \in RestockProducts} : a.alert_type # "none"}

\* a call of get_restock_alerts()
CallRestockAlerts ==
    /\ alerts_call' = [op |-> "alerts", result |-> get_restock_alerts(today)]
    /\ UNCHANGED <<config, call, snapshots, sales, order_items, today, cache, speed_call, proj_call>>

\* the variants of a list of annotated variants that are low
RECURSIVE LowVariants(_)
LowVariants(rows) ==
    IF rows = <<>> THEN {}
    ELSE (IF MonthsLeftLow(Head(rows).stock) THEN {Head(rows).v} ELSE {})
         \cup LowVariants(Tail(rows))

\* get_low_stock_products(queryset): queryset is [model, rows], the rows of
\* Product or of ProductVariant it selects; the result is the set of the low
\* variants, or of their products
get_low_stock_products(queryset, tdy) ==
    LET variant_qs ==
            IF queryset.model = "ProductVariant"
            THEN {v \in queryset.rows : EligibleProduct(ProductOf(v))}
            ELSE LET product_qs == {p \in queryset.rows : EligibleProduct(p)}
                 IN  {v \in Variants : ProductOf(v) \in product_qs}
        low_variants == LowVariants(AnnotatedVariants(variant_qs, tdy))
    IN  IF queryset.model = "Product"
        THEN {ProductOf(v) : v \in low_variants}
        ELSE low_variants

\* the querysets passed to get_low_stock_products
LowStockQuerysets ==
    {[model |-> "Product", rows |-> Products],
     [model |-> "ProductVariant", rows |-> Variants]}

\* a call of get_low_stock_products(queryset)
CallLowStockProducts(queryset) ==
    /\ call' = [op |-> "low_stock", model |-> queryset.model,
                result |-> get_low_stock_products(queryset, today)]
    /\ UNCHANGED <<config, snapshots, sales, order_items, today, cache, speed_call,
                   proj_call, alerts_call>>

-----------------------------------------------------------------------------
(* Rows drawn for the projection specification *)

\* snapshots, sales and order items in the projection specification
MaxProjRows == 2
MaxProjSales == 1
MaxOrderRows == 1

\* today: the tenth day of the fourth month
ProjToday == AddMonths(0, 3) + 9

ProjCurrentMonth == MonthStart(ProjToday)

\* two months ago, last month, and today
ProjSnapshotDates == {AddMonths(ProjCurrentMonth, 0 - 2),
                      AddMonths(ProjCurrentMonth, 0 - 1) + 4, ProjToday}

ProjCounts == {0 - 1, 3, 10}

\* last month, this month, next month
ProjSaleDates == {AddMonths(ProjCurrentMonth, 0 - 1) + 10, ProjCurrentMonth + 2,
                  AddMonths(ProjCurrentMonth, 1) + 5}

OrderItemRows(vs) ==
    [v : vs, quantity : {4},
     date_expected : {AddMonths(ProjCurrentMonth, 0 - 1) + 20,
                      AddMonths(ProjCurrentMonth, 1) + 3},
     date_arrived : {None, Some(ProjCurrentMonth + 1)},
     actual_quantity : {None, Some(2)}]

\* the snapshots in date order, one for a date (the import updates the row of
\* a date it finds)
DistinctSnapshotDates(t) ==
    \A i, j \in 1..Len(t) : i < j => t[i].date < t[j].date

ProjSpeedMaps ==
    {None, Some([v \in Variants |-> Frac(2, 1)]), Some([v \in Variants |-> Frac(1, 2)])}

InitProj ==
    /\ snapshots \in {t \in SeqsUpTo(SnapshotRows({"v1"}, ProjSnapshotDates, ProjCounts),
                                     MaxProjRows) : DistinctSnapshotDates(t)}
    /\ sales \in SeqsUpTo(SaleRows({"v1"}, ProjSaleDates, 1..MaxQty), MaxProjSales)
    /\ order_items \in SeqsUpTo(OrderItemRows({"v1"}), MaxOrderRows)
    /\ today = ProjToday
    /\ config = DefaultConfig
    /\ cache = EmptyCache
    /\ speed_call = NoCall
    /\ proj_call = NoCall
    /\ alerts_call = NoCall
    /\ call = NoCall

NextProj ==
    \/ \E speed_map \in ProjSpeedMaps :
          NoCallYet /\ CallVariantProjection("p1", speed_map)
    \/ NoCallYet /\ ProductDetail("p1")
    \/ NoCallYet /\ CallRestockAlerts

SpecProj == InitProj /\ [][NextProj]_vars

-----------------------------------------------------------------------------
(* Writes to the store, the signal receivers, and the cache *)

\* invalidate_product_cache(product_id): cache.delete_many of the three keys
invalidate_product_cache(c, p) == [c EXCEPT ![p] = EmptyCache[p]]

\* t without its i-th row
RemoveAt(t, i) == SubSeq(t, 1, i - 1) \o SubSeq(t, i + 1, Len(t))

\* rows of a table in the cache specification
MaxCacheRows == 1

\* Sale: created, saved with changed fields, deleted; the receiver
\* invalidate_sale_cache runs after each with the saved or deleted instance
CreateSale(row) ==
    /\ Len(sales) < MaxCacheRows
    /\ sales' = Append(sales, row)
    /\ cache' = invalidate_product_cache(cache, ProductOf(row.v))
    /\ UNCHANGED <<config, call, snapshots, order_items, today, speed_call, proj_call, alerts_call>>

UpdateSale(i, row) ==
    /\ i \in 1..Len(sales)
    /\ row # sales[i]
    /\ sales' = [sales EXCEPT ![i] = row]
    /\ cache' = invalidate_product_cache(cache, ProductOf(row.v))
    /\ UNCHANGED <<config, call, snapshots, order_items, today, speed_call, proj_call, alerts_call>>

DeleteSale(i) ==
    /\ i \in 1..Len(sales)
    /\ sales' = RemoveAt(sales, i)
    /\ cache' = invalidate_product_cache(cache, ProductOf(sales[i].v))
    /\ UNCHANGED <<config, call, snapshots, order_items, today, speed_call, proj_call, alerts_call>>

\* InventorySnapshot and the receiver invalidate_inventory_cache
CreateSnapshot(row) ==
    /\ Len(snapshots) < MaxCacheRows
    /\ snapshots' = Append(snapshots, row)
    /\ cache' = invalidate_product_cache(cache, ProductOf(row.v))
    /\ UNCHANGED <<config, call, sales, order_items, today, speed_call, proj_call, alerts_call>>

UpdateSnapshot(i, row) ==
    /\ i \in 1..Len(snapshots)
    /\ row # snapshots[i]
    /\ snapshots' = [snapshots EXCEPT ![i] = row]
    /\ cache' = invalidate_product_cache(cache, ProductOf(row.v))
    /\ UNCHANGED <<config, call, sales, order_items, today, speed_call, proj_call, alerts_call>>

DeleteSnapshot(i) ==
    /\ i \in 1..Len(snapshots)
    /\ snapshots' = RemoveAt(snapshots, i)
    /\ cache' = invalidate_product_cache(cache, ProductOf(snapshots[i].v))
    /\ UNCHANGED <<config, call, sales, order_items, today, speed_call, proj_call, alerts_call>>

\* OrderItem and the receiver invalidate_orderitem_cache
CreateOrderItem(row) ==
    /\ Len(order_items) < MaxCacheRows
    /\ order_items' = Append(order_items, row)
    /\ cache' = invalidate_product_cache(cache, ProductOf(row.v))
    /\ UNCHANGED <<config, call, snapshots, sales, today, speed_call, proj_call, alerts_call>>

UpdateOrderItem(i, row) ==
    /\ i \in 1..Len(order_items)
    /\ row # order_items[i]
    /\ order_items' = [order_items EXCEPT ![i] = row]
    /\ cache' = invalidate_product_cache(cache, ProductOf(row.v))
    /\ UNCHANGED <<config, call, snapshots, sales, today, speed_call, proj_call, alerts_call>>

DeleteOrderItem(i) ==
    /\ i \in 1..Len(order_items)
    /\ order_items' = RemoveAt(order_items, i)
    /\ cache' = invalidate_product_cache(cache, ProductOf(order_items[i].v))
    /\ UNCHANGED <<config, call, snapshots, sales, today, speed_call, proj_call, alerts_call>>

\* PRICE_CATEGORIES
PriceCategories == <<"full_price", "small_discount", "discount", "wholesale", "gifted">>

\* x or "" on a text
OrZeroText(x) == IF x = None THEN "" ELSE x.val

\* the rows of Referrer, by primary key
ReferrerRows == {"r1", "r2"}

\* str.lower() and str.strip() on the texts a request is drawn from
Lower(text) == IF text = "Gifted" THEN "gifted" ELSE text

Strip(text) == IF text = " o1 " THEN "o1" ELSE IF text = " " THEN "" ELSE text

\* the response to referrer_id: none when it is absent or empty, the row with
\* that key, 404 when there is none, an uncaught ValueError (500) when the text
\* is no key at all
ReferrerLookup(referrer_id) ==
    IF referrer_id = None \/ referrer_id.val = "" THEN [status |-> 302, referrer |-> NoReferrer]
    ELSE IF referrer_id.val \in ReferrerRows THEN [status |-> 302, referrer |-> referrer_id.val]
    ELSE IF referrer_id.val = "x" THEN [status |-> 500, referrer |-> NoReferrer]
    ELSE [status |-> 404, referrer |-> NoReferrer]

\* a variant of the update that reaches every sale
OrderSalesMutant(order_number) == 1..Len(sales)

\* Sale.objects.filter(order_number=order_number)
OrderSales(order_number) == {i \in 1..Len(sales) : sales[i].order_number = order_number}

\* the status of the response of assign_order_referrer
AssignStatus(bucket_key, order_number, referrer_id) ==
    IF Lower(bucket_key) \notin {PriceCategories[k] : k \in 1..Len(PriceCategories)}
    THEN 404
    ELSE IF Strip(OrZeroText(order_number)) = "" THEN 404
    ELSE IF OrderSales(Strip(OrZeroText(order_number))) = {} THEN 404
    ELSE ReferrerLookup(referrer_id).status

\* assign_order_referrer: a POST with the bucket key of the URL and the fields
\* order_number and referrer_id (None when absent).  The sales are written by
\* Sale.objects.filter(order_number=...).update(referrer=referrer), a queryset
\* update, which sends no post_save.  The request and the status of the
\* response are recorded in call.
AssignOrderReferrer(bucket_key, order_number, referrer_id) ==
    LET status == AssignStatus(bucket_key, order_number, referrer_id)
        rows   == OrderSales(Strip(OrZeroText(order_number)))
    IN  /\ sales' = IF status = 302
                    THEN [i \in 1..Len(sales) |->
                             IF i \in rows
                             THEN [sales[i] EXCEPT
                                      !.referrer = ReferrerLookup(referrer_id).referrer]
                             ELSE sales[i]]
                    ELSE sales
        /\ call' = [op |-> "assign", bucket_key |-> bucket_key,
                    order_number |-> order_number, referrer_id |-> referrer_id,
                    status |-> status]
        /\ UNCHANGED <<config, snapshots, order_items, today, cache, speed_call,
                       proj_call, alerts_call>>

\* the rows written in the cache specification
Referrers == {NoReferrer, "r1"}

CacheSaleRows ==
    [v : {"v1", "v3"}, date : {ProjCurrentMonth + 2}, sold_quantity : 1..MaxQty,
     order_number : {"o1"}, referrer : Referrers]

CacheSnapshotRows == SnapshotRows({"v1", "v3"}, {ProjCurrentMonth}, {3})

CacheOrderItemRows ==
    [v : {"v1"}, quantity : {4}, date_expected : {AddMonths(ProjCurrentMonth, 1) + 3},
     date_arrived : {None, Some(ProjCurrentMonth + 1)}, actual_quantity : {None}]

InitCache ==
    /\ snapshots = <<>>
    /\ sales = <<>>
    /\ order_items = <<>>
    /\ today = ProjToday
    /\ config = DefaultConfig
    /\ cache = EmptyCache
    /\ speed_call = NoCall
    /\ proj_call = NoCall
    /\ alerts_call = NoCall
    /\ call = NoCall

NextCache ==
    \/ \E row \in CacheSaleRows : row.referrer = NoReferrer /\ CreateSale(row)
    \/ \E i \in 1..MaxCacheRows, row \in CacheSaleRows :
          i <= Len(sales) /\ row.referrer = sales[i].referrer /\ UpdateSale(i, row)
    \/ \E i \in 1..MaxCacheRows : DeleteSale(i)
    \/ \E row \in CacheSnapshotRows : CreateSnapshot(row)
    \/ \E i \in 1..MaxCacheRows, row \in CacheSnapshotRows : UpdateSnapshot(i, row)
    \/ \E i \in 1..MaxCacheRows : DeleteSnapshot(i)
    \/ \E row \in CacheOrderItemRows : CreateOrderItem(row)
    \/ \E i \in 1..MaxCacheRows, row \in CacheOrderItemRows : UpdateOrderItem(i, row)
    \/ \E i \in 1..MaxCacheRows : DeleteOrderItem(i)
    \/ \E referrer_id \in {"", "r1"} :
          AssignOrderReferrer("full_price", Some("o1"), Some(referrer_id))
    \/ \E p \in {"p1", "p2"} : ProductDetail(p)

SpecCache == InitCache /\ [][NextCache]_vars

-----------------------------------------------------------------------------
(* Rows drawn for the restock alert specification *)

\* counts of a variant that is low on stock and of one that is not, given the
\* sale of the current week
LowCount == 10
HighCount == 30

\* the variants of the product with five variants
AlertVariants == <<"v4", "v5", "v6", "v7", "v8">>

\* what is stored for one variant: nothing, a snapshot of 0 or of -1, a
\* snapshot with a sale in the current week, a snapshot without sales
StockProfiles == {"none", "zero", "negative", "low", "ok", "idle"}

\* the alert counts the variants of a kind, whichever they are: the profiles are
\* drawn in one order
ProfileRank(k) ==
    CHOOSE i \in 1..6 : <<"none", "zero", "negative", "low", "ok", "idle">>[i] = k

ProfileCount(k) ==
    IF k = "zero" THEN 0 ELSE IF k = "negative" THEN 0 - 1
    ELSE IF k = "ok" THEN HighCount ELSE LowCount

RECURSIVE ProfileSnapshots(_, _)
ProfileSnapshots(prof, i) ==
    IF i > Len(AlertVariants) THEN <<>>
    ELSE (IF prof[i] = "none" THEN <<>>
          ELSE <<[v |-> AlertVariants[i], date |-> WeekStart(ProjToday),
                  inventory_count |-> ProfileCount(prof[i])]>>)
         \o ProfileSnapshots(prof, i + 1)

RECURSIVE ProfileSales(_, _)
ProfileSales(prof, i) ==
    IF i > Len(AlertVariants) THEN <<>>
    ELSE (IF prof[i] \in {"low", "ok"}
          THEN <<[v |-> AlertVariants[i], date |-> ProjToday, sold_quantity |-> MaxQty,
                  order_number |-> "o1", referrer |-> NoReferrer]>>
          ELSE <<>>)
         \o ProfileSales(prof, i + 1)

\* the catalogue settings of the restock specification: the default one; one
\* without a RestockSetting where p3 is only in the group "extra" and nothing
\* is decommissioned; one whose RestockSetting names "extra", with p3 in it and
\* p1 outside; one whose RestockSetting has no group; one where p3 is
\* decommissioned
RestockConfigs ==
    {DefaultConfig,
     [decommissioned  |-> {},
      product_groups  |-> [p \in Products |-> IF p = "p3" THEN {"extra"} ELSE {"core"}],
      groups          |-> {"core", "extra"},
      restock_setting |-> None,
      retail_price    |-> [p \in Products |-> None]],
     [decommissioned  |-> {},
      product_groups  |-> [p \in Products |->
                              IF p = "p3" THEN {"extra"}
                              ELSE IF p = "p2" THEN {"core", "extra"} ELSE {"core"}],
      groups          |-> {"core", "extra"},
      restock_setting |-> Some({"extra"}),
      retail_price    |-> [p \in Products |-> None]],
     [decommissioned  |-> {},
      product_groups  |-> [p \in Products |-> {"core"}],
      groups          |-> {"core"},
      restock_setting |-> Some({}),
      retail_price    |-> [p \in Products |-> None]],
     [decommissioned  |-> {"p3"},
      product_groups  |-> [p \in Products |-> {"core", "extra"}],
      groups          |-> {"core", "extra"},
      restock_setting |-> Some({"core"}),
      retail_price    |-> [p \in Products |-> None]]}

\* every profile is drawn with the default settings; with the other settings
\* all the variants have the same profile
InitAlerts ==
    /\ config \in RestockConfigs
    /\ \E prof \in [1..Len(AlertVariants) -> StockProfiles] :
          /\ \A i \in 1..(Len(AlertVariants) - 1) :
                 ProfileRank(prof[i]) <= ProfileRank(prof[i + 1])
          /\ config # DefaultConfig =>
                 \A i \in 1..(Len(AlertVariants) - 1) : prof[i] = prof[i + 1]
          /\ snapshots = ProfileSnapshots(prof, 1)
          /\ sales = ProfileSales(prof, 1)
    /\ order_items = <<>>
    /\ today = ProjToday
    /\ cache = EmptyCache
    /\ speed_call = NoCall
    /\ proj_call = NoCall
    /\ alerts_call = NoCall
    /\ call = NoCall

NextAlerts ==
    \/ (NoCallYet /\ CallRestockAlerts)
    \/ (NoCallYet /\ \E queryset \in LowStockQuerysets : CallLowStockProducts(queryset))

SpecAlerts == InitAlerts /\ [][NextAlerts]_vars

-----------------------------------------------------------------------------
(* Properties of the projection and of the forecast series *)

\* the position of month m on the axis `months`
MonthIndex(months, m) == CHOOSE i \in 1..Len(months) : months[i] = m

\* compute_variant_projection: a month at or before the current month takes off
\* the units sold in it, a later month takes off the speed
C4_ProjectionSplit ==
    proj_call.op = "proj" =>
        \A v \in VariantsOf(proj_call.p) :
            LET months == proj_call.result.months
                levels == proj_call.result.variant_lines[v]
                speed  == proj_call.speeds[v]
            IN  \A i \in 1..Len(months) :
                    LET prev == IF i = 1 THEN StockAtStart(v, months[1]) ELSE levels[i - 1]
                        base == prev + Restocks(v, months[i])
                    IN  IF months[i] <= MonthStart(today)
                        THEN levels[i] = Max(base - SalesByMonth(v, months[i]), 0)
                        ELSE levels[i] = Max(RoundHalfEven(base * speed[2] - speed[1],
                                                           speed[2]), 0)

\* the forecast series of product_detail: the same split, on the levels of each
\* variant (in tenths of a unit) that are summed into the points
C4_ForecastSplit ==
    \A p \in Products : cache[p].safe # None =>
        \A v \in VariantsOf(p) :
            LET levels  == ForecastInitial(p)[v]
                cursor  == MonthStart(LastSnapshotDate(p, today))
                speed10 == cache[p].safe.val[v].avg_speed[1]
            IN  \A i \in 2..Len(levels) :
                    LET m       == AddMonths(cursor, i - 1)
                        restock == 10 * FutureOrders(v, m, today)
                    IN  levels[i - 1] > 0 =>
                            IF m <= MonthStart(today)
                            THEN levels[i] = Max(levels[i - 1] - 10 * SalesByMonth(v, m), 0)
                                             + restock
                            ELSE levels[i] = Max(levels[i - 1] - speed10, 0) + restock

\* C4: on a projection's month axis a month at or before the current month
\* subtracts exactly the units sold in that month (the velocity has no
\* influence), and a month after the current month subtracts the monthly
\* velocity (the sales of that month have no influence), both in
\* compute_variant_projection and in the forecast series of product_detail.
C4_ActualThenVelocity == C4_ProjectionSplit /\ C4_ForecastSplit

\* C5: in the variant projection the level of the current month is the count of
\* the variant's latest snapshot, plus the restocks of the current month, minus
\* the units sold in the current month (not below 0).
C5_CurrentMonthLevel ==
    proj_call.op = "proj" =>
        \A v \in VariantsOf(proj_call.p) :
            LET months        == proj_call.result.months
                levels        == proj_call.result.variant_lines[v]
                current_month == MonthStart(today)
            IN  (RowsOf(snapshots, v) # <<>> /\ \E i \in 1..Len(months) : months[i] = current_month)
                    => levels[MonthIndex(months, current_month)]
                           = Max(LatestInventory(v) + Restocks(v, current_month)
                                 - SalesByMonth(v, current_month), 0)

\* C6: every level of every variant line of compute_variant_projection, and
\* every point of the forecast series of product_detail, is >= 0.
C6_LevelsNonNegative ==
    /\ proj_call.op = "proj" =>
           \A v \in VariantsOf(proj_call.p) :
               \A i \in 1..Len(proj_call.result.variant_lines[v]) :
                   proj_call.result.variant_lines[v][i] >= 0
    /\ \A p \in Products : cache[p].proj # None =>
           /\ \A v \in VariantsOf(p) :
                  \A i \in 1..Len(cache[p].proj.val.variant_lines[v]) :
                      cache[p].proj.val.variant_lines[v][i] >= 0
           /\ \A i \in 1..Len(ForecastData(p)) :
                  ~FracIsNeg(ForecastData(p)[i].y)

\* C7: in a month after the current month the level is
\* max(0, previous level + restocks of the month - velocity) for any velocity
\* >= 0; from stock 10 with velocity 2 and no restocks the levels run
\* 10, 8, 6, 4, 2, 0, 0.
C7_FutureLevelExact ==
    proj_call.op = "proj" =>
        \A v \in VariantsOf(proj_call.p) :
            LET months == proj_call.result.months
                levels == proj_call.result.variant_lines[v]
                speed  == proj_call.speeds[v]
            IN  ~FracIsNeg(speed) =>
                    /\ \A i \in 2..Len(months) :
                           months[i] > MonthStart(today) =>
                               levels[i] * speed[2]
                                   = Max((levels[i - 1] + Restocks(v, months[i])) * speed[2]
                                         - speed[1], 0)
                    /\ ( /\ FracEq(speed, Frac(2, 1))
                         /\ StockAtStart(v, months[1]) = 10
                         /\ RowsOf(sales, v) = <<>>
                         /\ RowsOf(order_items, v) = <<>> )
                           => SubSeq(levels, 1, 7) = <<10, 8, 6, 4, 2, 0, 0>>

-----------------------------------------------------------------------------
(* Properties of the cache and of the restock alerts *)

\* the rows of product p in three tables
ProductRows(sn, sl, oi, p) ==
    <<SelectSeq(sn, LAMBDA r : ProductOf(r.v) = p),
      SelectSeq(sl, LAMBDA r : ProductOf(r.v) = p),
      SelectSeq(oi, LAMBDA r : ProductOf(r.v) = p)>>

\* C8: after a create, update or delete of a snapshot, sale or order item of
\* product p (a step that changes the rows of p), none of the three cache
\* entries of p is present.
C8_WriteInvalidatesCache ==
    [][\A p \in Products :
          ProductRows(snapshots', sales', order_items', p)
              # ProductRows(snapshots, sales, order_items, p)
          => cache'[p] = EmptyCache[p]]_vars

\* C9: for a variant without snapshots the current stock shown by the restock
\* annotation (latest_inventory) and read by the safe stock rows of
\* product_detail (current_stock) is unknown, never the number 0.
C9_NoSnapshotStockUnknown ==
    /\ alerts_call.op = "alerts" =>
           \A a \in alerts_call.result : \A i \in 1..Len(a.variants) :
               RowsOf(snapshots, a.variants[i].v) = <<>>
                   => a.variants[i].stock.latest_inventory # 0
    /\ \A p \in Products : cache[p].safe # None =>
           \A v \in VariantsOf(p) :
               RowsOf(snapshots, v) = <<>> => cache[p].safe.val[v].current_stock # 0

\* the alert_type reported for product p, "none" when p is not in the result
AlertOf(p) ==
    IF \E a \in alerts_call.result : a.product = p
    THEN (CHOOSE a \in alerts_call.result : a.product = p).alert_type
    ELSE "none"

\* months_left of v is defined and below 3
MonthsLeftBelow3(v) ==
    LET speed == calculate_variant_sales_speed(v, DefaultWeeks, today, DefaultFallbackWeeks)
    IN  FracIsPos(speed) /\ LatestInventory(v) * speed[2] < 3 * speed[1]

\* the alerts are those of the rule: urgent iff more than 20% of the variants
\* are out of stock, else normal iff at least 50% have months_left < 3
AlertsFollowRule(OutOfStock(_)) ==
    alerts_call.op = "alerts" =>
        /\ \A a \in alerts_call.result : a.product \in RestockProducts
        /\ \A p \in RestockProducts :
               LET total  == Cardinality(VariantsOf(p))
                   out    == Cardinality({v \in VariantsOf(p) : OutOfStock(v)})
                   low    == Cardinality({v \in VariantsOf(p) : MonthsLeftBelow3(v)})
                   urgent == 5 * out > total
               IN  /\ AlertOf(p) = "urgent" <=> urgent
                   /\ AlertOf(p) = "normal" <=> (~urgent /\ 2 * low >= total)
                   /\ (total = 5 /\ out = 3) => AlertOf(p) = "urgent"

StockIsZero(v) == LatestInventory(v) = 0

StockIsZeroOrLess(v) == LatestInventory(v) <= 0

\* C10 as stated: an eligible product is urgent iff more than 20% of its
\* variants have zero current stock, else normal iff at least 50% of its
\* variants have months_left < 3, else absent; 3 of 5 at zero is urgent.
C10_ZeroStockRule == AlertsFollowRule(StockIsZero)

\* C10: an eligible product is urgent iff more than 20% of its variants have a
\* current stock of zero or less (a variant without snapshots has stock 0), else
\* normal iff at least 50% of its variants have months_left < 3, else absent;
\* 3 of 5 out of stock is urgent.
C10_AlertLevels == AlertsFollowRule(StockIsZeroOrLess)

C10_Witness ==
    /\ alerts_call.op = "alerts"
    /\ Cardinality({v \in VariantsOf("p3") : RowsOf(snapshots, v) # <<>>
                                             /\ LatestInventory(v) = 0}) = 3
    /\ Cardinality({v \in VariantsOf("p3") : LatestInventory(v) > 0}) = 2
    /\ AlertOf("p3") = "urgent"

-----------------------------------------------------------------------------
(* Eligibility for restock checks *)

\* the groups the restock checks are configured with: those of the
\* RestockSetting, the group named "core" when there is no RestockSetting
ConfiguredGroups ==
    IF config.restock_setting = None THEN {"core"} ELSE config.restock_setting.val

\* product p is decommissioned or in none of the configured groups
Excluded(p) ==
    \/ p \in config.decommissioned
    \/ config.product_groups[p] \cap ConfiguredGroups = {}

\* C11: no decommissioned product and no product outside the configured
\* restock groups (the group "core" without a RestockSetting) is in the result
\* of get_restock_alerts or of get_low_stock_products, and no variant of such a
\* product is, whatever its stock and sales.
C11_ExcludedNeverFlagged ==
    /\ alerts_call.op = "alerts" =>
           \A a \in alerts_call.result : ~Excluded(a.product)
    /\ (call.op = "low_stock" /\ call.model = "Product") =>
           \A p \in call.result : ~Excluded(p)
    /\ (call.op = "low_stock" /\ call.model = "ProductVariant") =>
           \A v \in call.result : ~Excluded(ProductOf(v))

\* p3 is outside the configured groups and all its variants are out of stock
C11_Witness ==
    /\ alerts_call.op = "alerts"
    /\ "p3" \notin config.decommissioned
    /\ Excluded("p3")
    /\ \A v \in VariantsOf("p3") : RowsOf(snapshots, v) # <<>> /\ LatestInventory(v) = 0
    /\ AlertOf("p3") = "none"
    /\ AlertOf("p1") = "urgent"

-----------------------------------------------------------------------------
(* Restock quantities *)

\* n is max(0, ceil(6 * speed - stock)): the least natural number that is at
\* least six months of sales less the stock
IsRestockTo6(n, speed, stock) ==
    /\ n >= 0
    /\ n * speed[2] >= 6 * speed[1] - stock * speed[2]
    /\ n > 0 => (n - 1) * speed[2] < 6 * speed[1] - stock * speed[2]

\* C12: in an alert, every variant of the product is listed once with
\* restock_to_6 = max(0, ceil(monthly velocity * 6 - current stock)), and
\* total_restock is the sum of restock_to_6 over the variants of the product,
\* hence not negative.
C12_RestockQuantities ==
    alerts_call.op = "alerts" =>
        \A a \in alerts_call.result :
            LET rows == a.variants
                qty  == [v \in VariantsOf(a.product) |->
                            (CHOOSE i \in 1..Len(rows) : rows[i].v = v)]
            IN  /\ {rows[i].v : i \in 1..Len(rows)} = VariantsOf(a.product)
                /\ Len(rows) = Cardinality(VariantsOf(a.product))
                /\ \A i \in 1..Len(rows) :
                       IsRestockTo6(rows[i].stock.restock_to_6,
                                    calculate_variant_sales_speed(
                                        rows[i].v, DefaultWeeks, today,
                                        DefaultFallbackWeeks),
                                    LatestInventory(rows[i].v))
                /\ a.total_restock =
                       SumOver(VariantsOf(a.product),
                                    [v \in VariantsOf(a.product) |->
                                        rows[qty[v]].stock.restock_to_6])
                /\ a.total_restock >= 0

\* an alert with a variant that needs units, one whose shortfall is negative
\* and is listed with 0, and a velocity that is not a whole number
C12_Witness ==
    /\ alerts_call.op = "alerts"
    /\ \E a \in alerts_call.result :
           /\ a.product = "p3"
           /\ a.total_restock > 0
           /\ \E i \in 1..Len(a.variants) :
                  /\ a.variants[i].stock.restock_to_6 > 0
                  /\ (6 * a.variants[i].stock.avg_speed[1])
                         % a.variants[i].stock.avg_speed[2] # 0
           /\ \E i \in 1..Len(a.variants) :
                  /\ a.variants[i].stock.restock_to_6 = 0
                  /\ 6 * a.variants[i].stock.avg_speed[1]
                        < a.variants[i].stock.latest_inventory
                            * a.variants[i].stock.avg_speed[2]

-----------------------------------------------------------------------------
(* Product confidence (compute_product_confidence)                          *)
(*                                                                          *)
(* The Decimal inputs are whole numbers (months, percentage points), absent *)
(* ones are None; gift_rate is a fraction.  Weights, bonuses and the        *)
(* weighted sum are counted in hundredths, so that Decimal("0.25") is 25.   *)

\* a variant of the score that gives a missing value the best score
banded_scoreMutant(value, lo, hi) ==
    IF value = None THEN 2
    ELSE IF value.val <= lo THEN 2
    ELSE IF value.val <= hi THEN 1
    ELSE 0

\* _banded_score(value, [lo, hi])
banded_score(value, lo, hi) ==
    IF value = None THEN 1
    ELSE IF value.val <= lo THEN 2
    ELSE IF value.val <= hi THEN 1
    ELSE 0

\* avg in (None, Decimal("0"))
NoBaseline(avg) == avg = None \/ avg.val = 0

CoverageScore(a) ==
    IF a.is_core THEN banded_score(a.months_to_sell_out, 12, 18)
    ELSE banded_score(a.months_to_sell_out, 5, 9)

\* sales_speed against avg_sales_speed * 1.2 and avg_sales_speed * 0.8
SalesSpeedScore(a) ==
    IF a.sales_speed = None \/ NoBaseline(a.baselines.avg_sales_speed) THEN 1
    ELSE LET avg == a.baselines.avg_sales_speed.val
         IN  IF 10 * a.sales_speed.val >= 12 * avg THEN 2
             ELSE IF 10 * a.sales_speed.val >= 8 * avg THEN 1
             ELSE 0

\* return_rate against the bands avg_return * 0.9 and avg_return * 1.1
ReturnScore(a) ==
    IF a.return_rate = None \/ NoBaseline(a.baselines.avg_return_rate) THEN 1
    ELSE LET avg == a.baselines.avg_return_rate.val
         IN  IF 10 * a.return_rate.val <= 9 * avg THEN 2
             ELSE IF 10 * a.return_rate.val <= 11 * avg THEN 1
             ELSE 0

DiscountScore(a) ==
    IF a.discount_pct = None \/ a.baselines.avg_discount_pct = None THEN 1
    ELSE banded_score(a.discount_pct, a.baselines.avg_discount_pct.val,
                      a.baselines.avg_discount_pct.val + 5)

MarginScore(a) ==
    IF a.margin_pct = None \/ a.baselines.avg_margin_pct = None THEN 1
    ELSE IF a.margin_pct.val >= a.baselines.avg_margin_pct.val + 5 THEN 2
    ELSE IF a.margin_pct.val >= a.baselines.avg_margin_pct.val - 5 THEN 1
    ELSE 0

\* " (margin may be impacted by gifted units)" is part of the margin messages
MarginContext(a) == a.gift_rate # None /\ ~FracLt(a.gift_rate.val, Frac(1, 10))

\* a variant of the list that leaves the return rate out
SevereSignalsMutant(a) ==
    (IF a.months_to_sell_out # None /\ a.months_to_sell_out.val >= 15
     THEN <<"sell_through">> ELSE <<>>)
    \o (IF a.discount_pct = None THEN <<>>
        ELSE IF a.discount_pct.val >= 50 THEN <<"clearance">>
        ELSE IF a.baselines.avg_discount_pct # None
                /\ a.discount_pct.val >= a.baselines.avg_discount_pct.val + 25
             THEN <<"discount">>
        ELSE <<>>)
    \o (IF a.margin_pct # None /\ a.baselines.avg_margin_pct # None
           /\ a.margin_pct.val <= a.baselines.avg_margin_pct.val - 15
        THEN <<IF MarginContext(a) THEN "margin_gifted" ELSE "margin">>
        ELSE <<>>)

\* severe_signals: one entry for each severe condition that holds
SevereSignals(a) ==
    (IF a.months_to_sell_out # None /\ a.months_to_sell_out.val >= 15
     THEN <<"sell_through">> ELSE <<>>)
    \o (IF a.return_rate # None /\ ~NoBaseline(a.baselines.avg_return_rate)
           /\ 2 * a.return_rate.val >= 3 * a.baselines.avg_return_rate.val
        THEN <<"returns">> ELSE <<>>)
    \o (IF a.discount_pct = None THEN <<>>
        ELSE IF a.discount_pct.val >= 50 THEN <<"clearance">>
        ELSE IF a.baselines.avg_discount_pct # None
                /\ a.discount_pct.val >= a.baselines.avg_discount_pct.val + 25
             THEN <<"discount">>
        ELSE <<>>)
    \o (IF a.margin_pct # None /\ a.baselines.avg_margin_pct # None
           /\ a.margin_pct.val <= a.baselines.avg_margin_pct.val - 15
        THEN <<IF MarginContext(a) THEN "margin_gifted" ELSE "margin">>
        ELSE <<>>)

\* margin_advisory: set when the margin is low but not severe
MarginAdvisory(a) ==
    IF a.margin_pct # None /\ a.baselines.avg_margin_pct # None
       /\ a.margin_pct.val > a.baselines.avg_margin_pct.val - 15
       /\ a.margin_pct.val < a.baselines.avg_margin_pct.val - 5
    THEN <<IF MarginContext(a) THEN "low_margin_gifted" ELSE "low_margin">>
    ELSE <<>>

\* weights, in hundredths
Weights(is_core) ==
    IF is_core
    THEN [coverage |-> 25, sales_speed |-> 20, returns |-> 20, discount |-> 15,
          margin |-> 20]
    ELSE [coverage |-> 30, sales_speed |-> 25, returns |-> 15, discount |-> 20,
          margin |-> 10]

\* a variant of the bonus that rewards the units in stock
PerformanceBonusMutant(a) ==
    (IF CoverageScore(a) = 2 /\ DiscountScore(a) = 2 THEN 10 ELSE 0)
    + (IF MarginScore(a) = 2 THEN 5 ELSE 0)
    + (IF a.inventory_units >= 5 THEN 5 ELSE 0)

\* performance_bonus, in hundredths
PerformanceBonus(a) ==
    (IF CoverageScore(a) = 2 /\ DiscountScore(a) = 2 THEN 10 ELSE 0)
    + (IF MarginScore(a) = 2 THEN 5 ELSE 0)
    + (IF a.sales_volume >= 50 THEN 5 ELSE 0)

\* a variant of the total without the cap
CappedTotalMutant(total) == total

\* min(weighted_sum + performance_bonus, Decimal("2")), in hundredths
CappedTotal(total) == IF total <= 200 THEN total ELSE 200

\* weighted_sum after the bonus and the cap, in hundredths
WeightedSum(a) ==
    LET w == Weights(a.is_core)
    IN  CappedTotal(CoverageScore(a) * w.coverage
                    + SalesSpeedScore(a) * w.sales_speed
                    + ReturnScore(a) * w.returns
                    + DiscountScore(a) * w.discount
                    + MarginScore(a) * w.margin
                    + PerformanceBonus(a))

\* a variant of the levels where 40 itself is Low
ScoreLevelMutant(score_pct) ==
    IF ~FracLt(score_pct, Frac(67, 1)) THEN "High"
    ELSE IF FracLt(Frac(40, 1), score_pct) THEN "Medium"
    ELSE "Low"

\* the level of score_pct before the severe signals are looked at
ScoreLevel(score_pct) ==
    IF ~FracLt(score_pct, Frac(67, 1)) THEN "High"
    ELSE IF ~FracLt(score_pct, Frac(40, 1)) THEN "Medium"
    ELSE "Low"

\* the advisories, each by a short name
Advisories(a) ==
    LET m == a.months_to_sell_out
        buffer_months == (IF a.restock_lead_months = None THEN 0
                          ELSE a.restock_lead_months.val) + 1
        overstock_threshold == IF a.is_core THEN 12 ELSE 9
    IN  (IF m = None THEN <<"no_projection">> ELSE <<>>)
        \o (IF m # None /\ a.is_core /\ m.val <= buffer_months
            THEN <<"restock_warning">> ELSE <<>>)
        \o (IF m # None /\ m.val > overstock_threshold
            THEN (IF a.sales_speed # None
                     /\ ~NoBaseline(a.baselines.avg_sales_speed)
                     /\ a.sales_speed.val >= a.baselines.avg_sales_speed.val
                  THEN <<"coverage_high">> ELSE <<"slow_sell_through">>)
            ELSE <<>>)
        \o (IF m # None /\ m.val < 3 /\ a.inventory_units < 5
            THEN <<"fast_seller_low_stock">> ELSE <<>>)
        \o SevereSignals(a)
        \o (IF a.discount_pct # None /\ a.baselines.avg_discount_pct # None
               /\ a.discount_pct.val > a.baselines.avg_discount_pct.val + 3
            THEN <<"heavy_discounting">> ELSE <<>>)
        \o MarginAdvisory(a)
        \o (IF a.sales_volume < 5 THEN <<"low_volume">> ELSE <<>>)

\* compute_product_confidence(**a); the score is round(score_pct, 1), a
\* fraction over 10
compute_product_confidence(a) ==
    LET score_pct == Frac(WeightedSum(a), 2)
        severe    == SevereSignals(a) # <<>>
        capped    == IF severe /\ FracLt(Frac(30, 1), score_pct) THEN Frac(30, 1)
                     ELSE score_pct
    IN  [level      |-> IF severe THEN "Low" ELSE ScoreLevel(score_pct),
         score      |-> Round1(capped),
         components |-> [sell_through |-> CoverageScore(a),
                         sales_speed  |-> SalesSpeedScore(a),
                         returns      |-> ReturnScore(a),
                         discount     |-> DiscountScore(a),
                         margin       |-> MarginScore(a)],
         advisories |-> Advisories(a)]

\* months_to_sell_out: none, within every band, between the bands, severe
ConfidenceMonths == {None, Some(2), Some(10), Some(15), Some(19)}

\* <<value, average>> for sales speed, return rate, discount and margin: on
\* both sides of every threshold, with the value or the average missing, and
\* with a zero average
SpeedPairs ==
    {<<None, Some(10)>>, <<Some(12), Some(10)>>, <<Some(7), Some(10)>>,
     <<Some(12), None>>}

ReturnPairs ==
    {<<None, Some(10)>>, <<Some(9), Some(10)>>, <<Some(11), Some(10)>>,
     <<Some(14), Some(10)>>, <<Some(15), Some(10)>>, <<Some(5), Some(0)>>,
     <<Some(0), Some(0)>>, <<Some(9), None>>}

DiscountPairs ==
    {<<None, Some(10)>>, <<Some(10), Some(10)>>, <<Some(15), Some(10)>>,
     <<Some(34), Some(10)>>, <<Some(35), Some(10)>>, <<Some(50), Some(60)>>,
     <<Some(30), None>>}

MarginPairs ==
    {<<None, Some(40)>>, <<Some(45), Some(40)>>, <<Some(35), Some(40)>>,
     <<Some(26), Some(40)>>, <<Some(25), Some(40)>>, <<Some(20), None>>}

\* <<restock_lead_months, inventory_units, gift_rate>>
ConfidenceExtras ==
    {<<None, 4, None>>, <<Some(2), 5, Some(Frac(1, 10))>>, <<Some(0), 4, Some(Frac(1, 20))>>}

ConfidenceVolumes == {4, 50}

ConfidenceArgs(months, speed, return, discount, margin, is_core, volume, extra) ==
    [months_to_sell_out  |-> months,
     sales_speed         |-> speed[1],
     return_rate         |-> return[1],
     discount_pct        |-> discount[1],
     margin_pct          |-> margin[1],
     baselines           |-> [avg_sales_speed  |-> speed[2],
                              avg_return_rate  |-> return[2],
                              avg_discount_pct |-> discount[2],
                              avg_margin_pct   |-> margin[2]],
     is_core             |-> is_core,
     restock_lead_months |-> extra[1],
     sales_volume        |-> volume,
     inventory_units     |-> extra[2],
     gift_rate           |-> extra[3]]

InitConfidence ==
    /\ config = DefaultConfig
    /\ snapshots = <<>>
    /\ sales = <<>>
    /\ order_items = <<>>
    /\ today = 0
    /\ cache = EmptyCache
    /\ speed_call = NoCall
    /\ proj_call = NoCall
    /\ alerts_call = NoCall
    /\ \E months \in ConfidenceMonths, speed \in SpeedPairs, return \in ReturnPairs,
          discount \in DiscountPairs, margin \in MarginPairs, is_core \in BOOLEAN,
          volume \in ConfidenceVolumes, extra \in ConfidenceExtras :
          call = [op |-> "pending",
                  args |-> ConfidenceArgs(months, speed, return, discount, margin,
                                          is_core, volume, extra)]

\* a call of compute_product_confidence with the arguments drawn
CallProductConfidence ==
    /\ call.op = "pending"
    /\ call' = [op |-> "confidence", args |-> call.args,
                result |-> compute_product_confidence(call.args)]
    /\ UNCHANGED <<config, snapshots, sales, order_items, today, cache, speed_call,
                   proj_call, alerts_call>>

NextConfidence == CallProductConfidence

SpecConfidence == InitConfidence /\ [][NextConfidence]_vars

-----------------------------------------------------------------------------
(* Properties of the confidence score *)

\* the call made, its arguments and its result
ConfidenceDone == call.op = "confidence"

\* some severe-signal condition holds, the return rate being compared with
\* 1.5 times any average, a zero one included
SevereAsStated(a) ==
    \/ a.months_to_sell_out # None /\ a.months_to_sell_out.val >= 15
    \/ /\ a.return_rate # None /\ a.baselines.avg_return_rate # None
       /\ 2 * a.return_rate.val >= 3 * a.baselines.avg_return_rate.val
    \/ a.discount_pct # None /\ a.discount_pct.val >= 50
    \/ /\ a.discount_pct # None /\ a.baselines.avg_discount_pct # None
       /\ a.discount_pct.val >= a.baselines.avg_discount_pct.val + 25
    \/ /\ a.margin_pct # None /\ a.baselines.avg_margin_pct # None
       /\ a.baselines.avg_margin_pct.val - a.margin_pct.val >= 15

\* the same with the return rate compared with a non-zero average only
SevereCondition(a) ==
    \/ a.months_to_sell_out # None /\ a.months_to_sell_out.val >= 15
    \/ /\ a.return_rate # None /\ a.baselines.avg_return_rate # None
       /\ a.baselines.avg_return_rate.val # 0
       /\ 2 * a.return_rate.val >= 3 * a.baselines.avg_return_rate.val
    \/ a.discount_pct # None /\ a.discount_pct.val >= 50
    \/ /\ a.discount_pct # None /\ a.baselines.avg_discount_pct # None
       /\ a.discount_pct.val >= a.baselines.avg_discount_pct.val + 25
    \/ /\ a.margin_pct # None /\ a.baselines.avg_margin_pct # None
       /\ a.baselines.avg_margin_pct.val - a.margin_pct.val >= 15

LowAndCapped(r) == r.level = "Low" /\ ~FracLt(Frac(30, 1), r.score)

\* C13 as stated: if a severe-signal condition holds (months to sell out >= 15,
\* return rate >= 1.5 x the average return rate, discount >= 50 or >= 25 points
\* above the average, margin >= 15 points below the average), the level is Low
\* and the score at most 30.
C13_SevereAsStated ==
    (ConfidenceDone /\ SevereAsStated(call.args)) => LowAndCapped(call.result)

\* C13: if a severe-signal condition holds, the return rate being compared with
\* an average return rate that is not zero, the level is Low and the score at
\* most 30, whatever the other inputs, the baselines and is_core.
C13_SevereForcesLow ==
    (ConfidenceDone /\ SevereCondition(call.args)) => LowAndCapped(call.result)

\* only the return rate is severe, and the weighted score alone would be High
C13_Witness ==
    /\ ConfidenceDone
    /\ call.args.return_rate = Some(15)
    /\ call.args.baselines.avg_return_rate = Some(10)
    /\ call.args.months_to_sell_out = Some(2)
    /\ call.args.discount_pct = Some(10)
    /\ call.args.margin_pct = Some(45)
    /\ WeightedSum(call.args) >= 134
    /\ call.result.level = "Low"
    /\ call.result.score = Frac(300, 10)

\* C14: when no severe signal is present, the level is High iff the returned
\* score is >= 67, Medium iff 40 <= score < 67, and Low iff score < 40.
C14_LevelFromScore ==
    (ConfidenceDone /\ ~SevereCondition(call.args)) =>
        LET r    == call.result
            ge67 == ~FracLt(r.score, Frac(67, 1))
            ge40 == ~FracLt(r.score, Frac(40, 1))
        IN  /\ r.level = "High" <=> ge67
            /\ r.level = "Medium" <=> (ge40 /\ ~ge67)
            /\ r.level = "Low" <=> ~ge40

\* a score of exactly 40 without a severe signal
C14_Witness ==
    /\ ConfidenceDone
    /\ ~SevereCondition(call.args)
    /\ call.result.score = Frac(400, 10)
    /\ call.result.level = "Medium"

\* the sum of the five weights, in hundredths
WeightTotal(w) == w.coverage + w.sales_speed + w.returns + w.discount + w.margin

\* C15: the weighted total with the bonuses is at most 2, the returned score is
\* in [0, 100], the core and the non-core weights each sum to 1.0, and the
\* bonus added is at most 0.2.
C15_TotalsBounded ==
    ConfidenceDone =>
        /\ WeightedSum(call.args) <= 200
        /\ ~FracLt(call.result.score, Frac(0, 1))
        /\ ~FracLt(Frac(100, 1), call.result.score)
        /\ WeightTotal(Weights(TRUE)) = 100
        /\ WeightTotal(Weights(FALSE)) = 100
        /\ PerformanceBonus(call.args) <= 20

\* every sub-score is 2 and every bonus is earned: the cap applies
C15_Witness ==
    /\ ConfidenceDone
    /\ \A k \in DOMAIN call.result.components : call.result.components[k] = 2
    /\ PerformanceBonus(call.args) = 20
    /\ WeightedSum(call.args) = 200
    /\ call.result.score = Frac(1000, 10)
    /\ call.result.level = "High"

-----------------------------------------------------------------------------
(* Price buckets (_determine_price_bucket)                                  *)
(*                                                                          *)
(* Sale rows here also carry return_quantity, sold_value and return_value;  *)
(* money is counted in cents, a null value is None.                         *)

\* x or 0
OrZero(x) == IF x = None THEN 0 ELSE x.val

Abs(x) == IF x < 0 THEN 0 - x ELSE x

\* sale.variant.product.retail_price or Decimal("0")
RetailPrice(sale) == OrZero(config.retail_price[ProductOf(sale.v)])

\* a variant of the total that does not fall back on the refund
ActualTotalMutant(sale) == OrZero(sale.sold_value)

\* actual_total: sold_value, or abs(return_value) when sold_value is zero or
\* null and return_value is not
ActualTotal(sale) ==
    IF OrZero(sale.sold_value) # 0 THEN OrZero(sale.sold_value)
    ELSE IF OrZero(sale.return_value) # 0 THEN Abs(OrZero(sale.return_value))
    ELSE 0

\* a variant of the guard that lets a quantity of zero through
NoQuantityMutant(sold_quantity) == sold_quantity < 0

\* sold_quantity <= 0
NoQuantity(sold_quantity) == sold_quantity <= 0

\* PRICE_BUCKET_TOLERANCE, SMALL_DISCOUNT_THRESHOLD, DISCOUNT_THRESHOLD
PriceBucketTolerance == Frac(5, 1000)

SmallDiscountThreshold == Frac(5, 100)

DiscountThreshold == Frac(20, 100)

\* a variant of the thresholds where the tolerance itself is a small discount
RatioBucketMutant(diff_ratio) ==
    IF FracLt(diff_ratio, PriceBucketTolerance) THEN "full_price"
    ELSE IF FracLt(diff_ratio, SmallDiscountThreshold) THEN "small_discount"
    ELSE IF FracLt(diff_ratio, DiscountThreshold) THEN "discount"
    ELSE "wholesale"

\* the bucket of diff_ratio
RatioBucket(diff_ratio) ==
    IF ~FracLt(PriceBucketTolerance, diff_ratio) THEN "full_price"
    ELSE IF FracLt(diff_ratio, SmallDiscountThreshold) THEN "small_discount"
    ELSE IF FracLt(diff_ratio, DiscountThreshold) THEN "discount"
    ELSE "wholesale"

\* _determine_price_bucket(sale): None, or the key of a bucket
determine_price_bucket(sale) ==
    LET sold_quantity == OrZero(sale.sold_quantity)
        retail_price  == RetailPrice(sale)
        actual_total  == ActualTotal(sale)
        actual_price  == IF sold_quantity # 0 THEN Frac(actual_total, sold_quantity)
                         ELSE Frac(0, 1)
    IN  IF NoQuantity(sold_quantity) THEN None
        ELSE IF FracIsZero(actual_price) THEN Some("gifted")
        ELSE IF retail_price <= 0 THEN Some("full_price")
        ELSE Some(RatioBucket(Frac(retail_price * sold_quantity - actual_total,
                                   retail_price * sold_quantity)))

\* the retail price of p1 is 200.00; that of p2 is null, zero or negative
BucketRetail == 20000

BucketConfigs ==
    {[DefaultConfig EXCEPT !.retail_price =
                               [p \in Products |-> IF p = "p1" THEN Some(BucketRetail)
                                                   ELSE other]] :
        other \in {None, Some(0), Some(0 - 100)}}

\* sold_quantity: null, negative, zero, one, two
BucketQuantities == {None, Some(0 - 1), Some(0), Some(1), Some(2)}

\* sold_value: null, zero, negative, and with one unit of p1 the ratios 0,
\* 0.004, 0.005, 0.006, 0.049, 0.05, 0.199, 0.2, 0.5 and -0.25
BucketSoldValues ==
    {None, Some(0), Some(0 - 5000), Some(20000), Some(19920), Some(19900),
     Some(19880), Some(19020), Some(19000), Some(16020), Some(16000), Some(10000),
     Some(25000)}

\* return_value: null, zero, a refund written as a negative or a positive amount
BucketReturnValues == {None, Some(0), Some(0 - 19000), Some(20000), Some(1)}

BucketSales ==
    {[v |-> v, date |-> 0, sold_quantity |-> q, return_quantity |-> None,
      sold_value |-> sv, return_value |-> rv, order_number |-> "o1",
      referrer |-> NoReferrer] :
        v \in {"v1", "v3"}, q \in BucketQuantities, sv \in BucketSoldValues,
        rv \in BucketReturnValues}

InitBucket ==
    /\ config \in BucketConfigs
    /\ snapshots = <<>>
    /\ \E sale \in BucketSales : sales = <<sale>>
    /\ order_items = <<>>
    /\ today = 0
    /\ cache = EmptyCache
    /\ speed_call = NoCall
    /\ proj_call = NoCall
    /\ alerts_call = NoCall
    /\ call = NoCall

\* a call of _determine_price_bucket on the sale
CallPriceBucket ==
    /\ call = NoCall
    /\ call' = [op |-> "bucket", result |-> determine_price_bucket(sales[1])]
    /\ UNCHANGED <<config, snapshots, sales, order_items, today, cache, speed_call,
                   proj_call, alerts_call>>

NextBucket == CallPriceBucket

SpecBucket == InitBucket /\ [][NextBucket]_vars

-----------------------------------------------------------------------------
(* Properties of the price bucket *)

BucketKeys == {"full_price", "small_discount", "discount", "wholesale", "gifted"}

\* C16: for a sale with sold_quantity > 0 the result is one of the five bucket
\* keys, never None, whatever the sold value, the return value and the retail
\* price; for a sold_quantity that is missing or <= 0 the result is None.
C16_BucketTotal ==
    call.op = "bucket" =>
        LET q == sales[1].sold_quantity
        IN  IF q # None /\ q.val > 0
            THEN call.result # None /\ call.result.val \in BucketKeys
            ELSE call.result = None

\* a sale of two units without sold value, return value and retail price
C16_Witness ==
    /\ call.op = "bucket"
    /\ sales[1].sold_quantity = Some(2)
    /\ sales[1].sold_value = None
    /\ sales[1].return_value = None
    /\ config.retail_price[ProductOf(sales[1].v)] = None
    /\ call.result = Some("gifted")

\* the total the unit price is taken from: sold_value, and the absolute
\* return_value when sold_value is zero or absent
StatedTotal(sale) ==
    IF sale.sold_value # None /\ sale.sold_value.val # 0 THEN sale.sold_value.val
    ELSE IF sale.return_value = None THEN 0
    ELSE IF sale.return_value.val < 0 THEN 0 - sale.return_value.val
    ELSE sale.return_value.val

\* the bucket of a sale of q > 0 units at total t and retail price r (None when
\* unknown), with unit = t / q and diff = (r - unit) / r
StatedBucket(t, q, r) ==
    IF t = 0 THEN "gifted"
    ELSE IF r = None \/ r.val <= 0 THEN "full_price"
    ELSE IF 1000 * (r.val * q - t) <= 5 * r.val * q THEN "full_price"
    ELSE IF 100 * (r.val * q - t) < 5 * r.val * q THEN "small_discount"
    ELSE IF 100 * (r.val * q - t) < 20 * r.val * q THEN "discount"
    ELSE "wholesale"

\* C17: with unit price = sold_value / quantity (|return_value| / quantity when
\* sold_value is zero or absent): unit price 0 is gifted; else a retail price
\* that is <= 0 or unknown is full_price; else diff = (retail - unit) / retail
\* gives full_price when <= 0.005, small_discount when < 0.05, discount when
\* < 0.20, wholesale otherwise.  A line with zero sold_value and a non-zero
\* return_value is never gifted.
C17_BucketThresholds ==
    (call.op = "bucket" /\ sales[1].sold_quantity # None
                        /\ sales[1].sold_quantity.val > 0) =>
        /\ call.result = Some(StatedBucket(StatedTotal(sales[1]),
                                           sales[1].sold_quantity.val,
                                           config.retail_price[ProductOf(sales[1].v)]))
        /\ (OrZero(sales[1].sold_value) = 0 /\ OrZero(sales[1].return_value) # 0)
               => call.result # Some("gifted")

\* a refunded line: no sold value, a negative return value of 190.00 for one
\* unit at retail price 200.00, which is a discount of exactly 0.05
C17_Witness ==
    /\ call.op = "bucket"
    /\ sales[1].v = "v1"
    /\ sales[1].sold_quantity = Some(1)
    /\ sales[1].sold_value = Some(0)
    /\ sales[1].return_value = Some(0 - 19000)
    /\ call.result = Some("discount")

-----------------------------------------------------------------------------
(* The sales view (sales) and its price breakdown *)

\* _parse_sales_date(param): a parameter is absent, a text that is no date, or
\* the ISO text of a day
ParseSalesDate(param) == IF param.kind = "date" THEN Some(param.day) ELSE None

\* _get_sales_date_range(request): the last month by default, the two ends
\* swapped when they come in the wrong order
get_sales_date_range(start_param, end_param, tdy) ==
    LET default_end   == MonthStart(tdy) - 1
        default_start == MonthStart(default_end)
        start_date    == IF ParseSalesDate(start_param) = None THEN default_start
                         ELSE ParseSalesDate(start_param).val
        end_date      == IF ParseSalesDate(end_param) = None THEN default_end
                         ELSE ParseSalesDate(end_param).val
    IN  IF start_date > end_date THEN <<end_date, start_date>>
        ELSE <<start_date, end_date>>

\* a variant of the filter that keeps the lines with a returned quantity
EligibleSaleMutant(sale, range) ==
    /\ sale.date >= range[1] /\ sale.date <= range[2]
    /\ sale.sold_quantity.val > 0

\* eligible_sales: in the range, return_quantity null or 0, sold_quantity > 0
EligibleSale(sale, range) ==
    /\ sale.date >= range[1] /\ sale.date <= range[2]
    /\ (sale.return_quantity = None \/ sale.return_quantity.val = 0)
    /\ sale.sold_quantity.val > 0

EmptyBucket == [items_count |-> 0, retail_value |-> 0, actual_value |-> 0]

\* the loop over eligible_sales: price_buckets after the rows from i on
RECURSIVE PriceBuckets(_, _, _, _)
PriceBuckets(rows, range, i, buckets) ==
    IF i > Len(rows) THEN buckets
    ELSE LET sale       == rows[i]
             bucket_key == determine_price_bucket(sale)
         IN  IF ~EligibleSale(sale, range) \/ bucket_key = None
             THEN PriceBuckets(rows, range, i + 1, buckets)
             ELSE LET b == buckets[bucket_key.val]
                  IN  PriceBuckets(rows, range, i + 1,
                          [buckets EXCEPT ![bucket_key.val] =
                              [items_count  |-> b.items_count + sale.sold_quantity.val,
                               retail_value |-> b.retail_value
                                                + RetailPrice(sale) * sale.sold_quantity.val,
                               actual_value |-> b.actual_value + OrZero(sale.sold_value)]])

\* the context of the sales view
sales_view(start_param, end_param, tdy) ==
    LET range    == get_sales_date_range(start_param, end_param, tdy)
        in_range == {i \in 1..Len(sales) : sales[i].date >= range[1]
                                           /\ sales[i].date <= range[2]}
        buckets  == PriceBuckets(sales, range, 1,
                                 [k \in {PriceCategories[j] : j \in 1..Len(PriceCategories)}
                                     |-> EmptyBucket])
        keys     == DOMAIN buckets
    IN  [start_date   |-> range[1],
         end_date     |-> range[2],
         orders_count |-> Cardinality({sales[i].order_number : i \in in_range}),
         items_count  |-> SumOver(in_range,
                                  [i \in 1..Len(sales) |->
                                      sales[i].sold_quantity.val
                                      - OrZero(sales[i].return_quantity)]),
         price_breakdown |-> buckets,
         pricing_total_items |->
             SumOver(keys, [k \in keys |-> buckets[k].items_count]),
         pricing_total_retail_value |->
             SumOver(keys, [k \in keys |-> buckets[k].retail_value]),
         pricing_total_actual_value |->
             SumOver(keys, [k \in keys |-> buckets[k].actual_value])]

\* sales in one sales-view state
MaxSalesRows == 3

\* the day of last month on which the lines of the default range are dated
SalesViewDay == AddMonths(ProjCurrentMonth, 0 - 1) + 10

SalesViewRow(v, date, q, rq, sv, rv) ==
    [v |-> v, date |-> date, sold_quantity |-> Some(q), return_quantity |-> rq,
     sold_value |-> Some(sv), return_value |-> rv, order_number |-> "o1",
     referrer |-> NoReferrer]

\* a line for each bucket, a returned line, lines without quantity, a line of
\* this month, a line of a product without retail price, and a refunded line
SalesViewRows ==
    {SalesViewRow("v1", SalesViewDay, 1, None, 20000, None),
     SalesViewRow("v1", SalesViewDay, 2, Some(0), 38400, None),
     SalesViewRow("v1", SalesViewDay, 1, None, 18000, None),
     SalesViewRow("v1", SalesViewDay, 2, None, 20000, None),
     SalesViewRow("v1", SalesViewDay, 1, None, 0, None),
     SalesViewRow("v1", SalesViewDay, 2, Some(1), 30000, Some(15000)),
     SalesViewRow("v1", SalesViewDay, 0, None, 0, None),
     SalesViewRow("v1", SalesViewDay, 0 - 1, None, 0 - 20000, None),
     SalesViewRow("v1", ProjToday, 1, None, 20000, None),
     SalesViewRow("v3", SalesViewDay, 1, None, 5000, None),
     SalesViewRow("v1", SalesViewDay, 1, Some(0), 0, Some(20000))}

\* the start_date and end_date parameters of the request
SalesDateParams ==
    {<<[kind |-> "absent"], [kind |-> "absent"]>>,
     <<[kind |-> "date", day |-> ProjCurrentMonth], [kind |-> "date", day |-> ProjToday]>>,
     <<[kind |-> "date", day |-> ProjToday], [kind |-> "date", day |-> SalesViewDay]>>,
     <<[kind |-> "invalid"], [kind |-> "date", day |-> SalesViewDay]>>}

InitSales ==
    /\ config = [DefaultConfig EXCEPT !.retail_price =
                    [p \in Products |-> IF p = "p1" THEN Some(BucketRetail) ELSE None]]
    /\ snapshots = <<>>
    /\ sales \in SeqsUpTo(SalesViewRows, MaxSalesRows)
    /\ order_items = <<>>
    /\ today = ProjToday
    /\ cache = EmptyCache
    /\ speed_call = NoCall
    /\ proj_call = NoCall
    /\ alerts_call = NoCall
    /\ call = NoCall

\* a GET of the sales view
CallSalesView(start_param, end_param) ==
    /\ call = NoCall
    /\ call' = [op |-> "sales_view", result |-> sales_view(start_param, end_param, today)]
    /\ UNCHANGED <<config, snapshots, sales, order_items, today, cache, speed_call,
                   proj_call, alerts_call>>

NextSales == \E params \in SalesDateParams : CallSalesView(params[1], params[2])

SpecSales == InitSales /\ [][NextSales]_vars

-----------------------------------------------------------------------------
(* Properties of the price breakdown *)

\* the sales of the date range shown with a quantity sold and none returned
BucketedSales ==
    {i \in 1..Len(sales) :
        /\ sales[i].date >= call.result.start_date
        /\ sales[i].date <= call.result.end_date
        /\ sales[i].sold_quantity.val > 0
        /\ OrZero(sales[i].return_quantity) = 0}

\* the bucket a sale belongs to by the rule of the price buckets
BucketOfSale(i) ==
    StatedBucket(StatedTotal(sales[i]), sales[i].sold_quantity.val,
                 config.retail_price[ProductOf(sales[i].v)])

\* C18: every sale of the date range with sold_quantity > 0 and no returned
\* quantity adds its quantity, its retail value and its sold value to exactly
\* one bucket, so the item counts of the buckets sum to the quantity of those
\* sales and the pricing totals are the sums over those sales; the other sales
\* add nothing to any bucket.
C18_BucketsReconcile ==
    call.op = "sales_view" =>
        LET r        == call.result
            idx      == 1..Len(sales)
            qty      == [i \in idx |-> sales[i].sold_quantity.val]
            retail   == [i \in idx |-> OrZero(config.retail_price[ProductOf(sales[i].v)])
                                       * sales[i].sold_quantity.val]
            sold     == [i \in idx |-> OrZero(sales[i].sold_value)]
        IN  /\ DOMAIN r.price_breakdown = BucketKeys
            /\ \A k \in BucketKeys :
                   LET of_k == {i \in BucketedSales : BucketOfSale(i) = k}
                   IN  /\ r.price_breakdown[k].items_count = SumOver(of_k, qty)
                       /\ r.price_breakdown[k].retail_value = SumOver(of_k, retail)
                       /\ r.price_breakdown[k].actual_value = SumOver(of_k, sold)
            /\ r.pricing_total_items = SumOver(BucketedSales, qty)
            /\ r.pricing_total_retail_value = SumOver(BucketedSales, retail)
            /\ r.pricing_total_actual_value = SumOver(BucketedSales, sold)

\* two lines in different buckets are counted, a returned line is not
C18_Witness ==
    /\ call.op = "sales_view"
    /\ Len(sales) = 3
    /\ Cardinality(BucketedSales) = 2
    /\ \E i \in 1..3 : /\ sales[i].return_quantity = Some(1)
                       /\ sales[i].date >= call.result.start_date
                       /\ sales[i].date <= call.result.end_date
    /\ call.result.price_breakdown["small_discount"].items_count = 2
    /\ call.result.price_breakdown["wholesale"].items_count = 2
    /\ call.result.pricing_total_items = 4
    /\ call.result.pricing_total_actual_value = 58400

-----------------------------------------------------------------------------
(* Referrer reassignment *)

\* sales of two orders, with or without a referrer
MaxOrderSales == 3

ReferrerSaleRows ==
    {[v |-> "v1", date |-> 0, sold_quantity |-> q, order_number |-> o, referrer |-> r] :
        q \in {1}, o \in {"o1", "o2"}, r \in {NoReferrer, "r1"}}

\* the bucket keys, order numbers and referrer ids of the requests
AssignBucketKeys == {"full_price", "Gifted", "bogus"}

AssignOrderNumbers == {None, Some(" "), Some("o1"), Some(" o1 "), Some("o2"), Some("o9")}

AssignReferrerIds == {None, Some(""), Some("r1"), Some("r2"), Some("r9"), Some("x")}

InitReferrer ==
    /\ config = DefaultConfig
    /\ snapshots = <<>>
    /\ sales \in SeqsUpTo(ReferrerSaleRows, MaxOrderSales)
    /\ order_items = <<>>
    /\ today = 0
    /\ cache = EmptyCache
    /\ speed_call = NoCall
    /\ proj_call = NoCall
    /\ alerts_call = NoCall
    /\ call = NoCall

NextReferrer ==
    \E bucket_key \in AssignBucketKeys, order_number \in AssignOrderNumbers,
       referrer_id \in AssignReferrerIds :
        AssignOrderReferrer(bucket_key, order_number, referrer_id)

SpecReferrer == InitReferrer /\ [][NextReferrer]_vars

\* the order number N of a request, without the blanks around it
RequestedOrder(req) ==
    IF req.order_number = None THEN ""
    ELSE IF req.order_number.val = " o1 " THEN "o1"
    ELSE IF req.order_number.val = " " THEN ""
    ELSE req.order_number.val

\* the request names a bucket, an order that has sales, and a referrer that
\* exists or none
RequestValid(req) ==
    /\ req.bucket_key \in {"full_price", "Gifted"}
    /\ RequestedOrder(req) # ""
    /\ \E i \in 1..Len(sales) : sales[i].order_number = RequestedOrder(req)
    /\ req.referrer_id \in {None, Some(""), Some("r1"), Some("r2")}

\* the referrer a valid request chooses
ChosenReferrer(req) ==
    IF req.referrer_id \in {None, Some("")} THEN NoReferrer ELSE req.referrer_id.val

\* C19: a successful assign_order_referrer POST for order number N sets the
\* referrer of every sale of order N to the chosen referrer (to none when
\* referrer_id is empty), changes no other field of them and nothing on the
\* sales of other orders; a request with an unknown bucket key, without order
\* number, for an unknown order or with an unknown referrer is rejected and
\* changes no sale.
C19_AssignFrame ==
    [][call'.op = "assign" =>
          IF RequestValid(call')
          THEN /\ call'.status = 302
               /\ Len(sales') = Len(sales)
               /\ \A i \in 1..Len(sales) :
                      IF sales[i].order_number = RequestedOrder(call')
                      THEN sales'[i] = [sales[i] EXCEPT !.referrer = ChosenReferrer(call')]
                      ELSE sales'[i] = sales[i]
          ELSE /\ call'.status # 302
               /\ sales' = sales]_vars

\* after a request for order o1 with referrer r2: two sales of o1 carry r2 and
\* a sale of o2 still has none
C19_Witness ==
    /\ call.op = "assign"
    /\ call.status = 302
    /\ call.order_number = Some(" o1 ")
    /\ call.referrer_id = Some("r2")
    /\ Len(sales) = 3
    /\ Cardinality({i \in 1..3 : sales[i].order_number = "o1"
                                 /\ sales[i].referrer = "r2"}) = 2
    /\ \E i \in 1..3 : sales[i].order_number = "o2" /\ sales[i].referrer = NoReferrer

-----------------------------------------------------------------------------
(* The last order of a variant in product_detail *)

\* order items in one state of the last-order specification
MaxLastOrderRows == 3

LastOrderRow(v, quantity, date_arrived, actual_quantity) ==
    [v |-> v, quantity |-> quantity, date_expected |-> ProjToday,
     date_arrived |-> date_arrived, actual_quantity |-> actual_quantity]

\* a pending item; items delivered forty days ago, one of them with the
\* quantity received recorded; items delivered five days ago and today; an
\* item whose arrival date is three days ahead; an item of the other variant
LastOrderRows ==
    {LastOrderRow("v1", 9, None, None),
     LastOrderRow("v1", 4, Some(ProjToday - 40), None),
     LastOrderRow("v1", 9, Some(ProjToday - 40), Some(2)),
     LastOrderRow("v1", 4, Some(ProjToday - 5), Some(0)),
     LastOrderRow("v1", 9, Some(ProjToday), None),
     LastOrderRow("v1", 9, Some(ProjToday + 3), None),
     LastOrderRow("v2", 4, Some(ProjToday - 5), None)}

InitLastOrder ==
    /\ config = DefaultConfig
    /\ snapshots = <<>>
    /\ sales = <<>>
    /\ order_items \in SeqsUpTo(LastOrderRows, MaxLastOrderRows)
    /\ today = ProjToday
    /\ cache = EmptyCache
    /\ speed_call = NoCall
    /\ proj_call = NoCall
    /\ alerts_call = NoCall
    /\ call = NoCall

NextLastOrder == NoCallYet /\ ProductDetail("p1")

SpecLastOrder == InitLastOrder /\ [][NextLastOrder]_vars

\* the order items of v that have arrived: date_arrived set and not after today
ArrivedItems(v) ==
    {i \in 1..Len(order_items) :
        /\ order_items[i].v = v
        /\ order_items[i].date_arrived # None
        /\ ~(order_items[i].date_arrived.val > today)}

\* item i is one of those of v that arrived last
ArrivedLast(v, i) ==
    /\ i \in ArrivedItems(v)
    /\ \A j \in ArrivedItems(v) :
           ~(order_items[j].date_arrived.val > order_items[i].date_arrived.val)

\* C20: last_order_qty and last_order_date of each variant come from its most
\* recently arrived delivered order item (date_arrived set and not after
\* today; the quantity is actual_quantity when recorded, else the ordered
\* quantity); without such an item both are empty, and a pending item never
\* affects them.
C20_LastOrderFromDelivered ==
    call.op = "detail" =>
        \A v \in VariantsOf(call.product) :
            LET row == call.rows[v]
            IN  IF ArrivedItems(v) = {}
                THEN row.last_order_qty = None /\ row.last_order_date = None
                ELSE \E i \in 1..Len(order_items) :
                        /\ ArrivedLast(v, i)
                        /\ row.last_order_date = Some(order_items[i].date_arrived.val)
                        /\ row.last_order_qty =
                               Some(IF order_items[i].actual_quantity # None
                                    THEN order_items[i].actual_quantity.val
                                    ELSE order_items[i].quantity)

\* a pending item of 9 after a delivered one of 4: the last order is the 4
C20_Witness ==
    /\ call.op = "detail"
    /\ Len(order_items) = 3
    /\ order_items[1] = LastOrderRow("v1", 9, Some(ProjToday - 40), Some(2))
    /\ order_items[2] = LastOrderRow("v1", 4, Some(ProjToday - 5), Some(0))
    /\ order_items[3] = LastOrderRow("v1", 9, None, None)
    /\ call.rows["v1"].last_order_qty = Some(0)
    /\ call.rows["v1"].last_order_date = Some(ProjToday - 5)
    /\ call.rows["v2"].last_order_qty = None

-----------------------------------------------------------------------------
(* A worked example of the sales speed: a snapshot of 5 units today and six   *)
(* sales of 2 units, one in each of six successive weeks                       *)

\* the Monday of the week of today in the example
ExampleWeek == DaysPerWeek * 30

\* the six sales: on weekday d of six successive weeks, the last of them
\* `back` weeks before the week of today
RECURSIVE ExampleSales(_, _, _)
ExampleSales(d, back, k) ==
    IF k = 0 THEN <<>>
    ELSE ExampleSales(d, back, k - 1)
         \o <<[v |-> "v1", date |-> ExampleWeek - DaysPerWeek * (back + 6 - k) + d,
               sold_quantity |-> 2, order_number |-> "o1", referrer |-> NoReferrer]>>

\* today is any day of the week; the sales fall on any weekday, the last one in
\* the week of today (not after today) or in the week before
InitExample ==
    /\ \E wd \in 0..(DaysPerWeek - 1), d \in 0..(DaysPerWeek - 1), back \in {0, 1} :
          /\ back = 0 => d <= wd
          /\ today = ExampleWeek + wd
          /\ sales = ExampleSales(d, back, 6)
          /\ snapshots = <<[v |-> "v1", date |-> ExampleWeek + wd, inventory_count |-> 5]>>
    /\ order_items = <<>>
    /\ config = DefaultConfig
    /\ cache = EmptyCache
    /\ speed_call = NoCall
    /\ proj_call = NoCall
    /\ alerts_call = NoCall
    /\ call = NoCall

NextExample ==
    NoCallYet /\ CallSpeedDetails("v1", DefaultWeeks, today, DefaultFallbackWeeks)

SpecExample == InitExample /\ [][NextExample]_vars

\* the speed of the example has been computed
ExampleDone == speed_call.op = "speed"

\* a sale of the example is dated in the week of today
SaleThisWeek == \E i \in 1..Len(sales) : WeekStart(sales[i].date) = WeekStart(today)

\* C21 as stated: the estimated velocity of the example is 8.0 units per month
\* to one decimal place.
C21_AboutEight == ExampleDone => Round1(speed_call.result.speed) = Frac(80, 10)

\* C21: the estimated velocity of the example is 12 units over the counted
\* weeks times 365.25/84 weeks per month: about 8.7 units per month (6 weeks
\* counted) when a sale falls in the week of today, about 7.5 (7 weeks
\* counted, the week of today having stock and no sale) when the six sales
\* fall in the six weeks before it.
C21_ExampleVelocity ==
    ExampleDone =>
        /\ speed_call.result.total_sold = 12
        /\ speed_call.result.periods = IF SaleThisWeek THEN 6 ELSE 7
        /\ FracEq(speed_call.result.speed,
                  Frac(12 * 36525, 8400 * speed_call.result.periods))
        /\ Round1(speed_call.result.speed)
               = IF SaleThisWeek THEN Frac(87, 10) ELSE Frac(75, 10)

\* the sales fall on the day of the week of today, the last one today
C21_Witness ==
    /\ ExampleDone
    /\ \E i \in 1..Len(sales) : sales[i].date = today
    /\ speed_call.result.periods = 6
    /\ Round1(speed_call.result.speed) = Frac(87, 10)

-----------------------------------------------------------------------------
(* The commission of a referrer (referrer_detail)                            *)
(*                                                                          *)
(* Money is counted in cents; the commission, a quarter of a price, in      *)
(* hundredths of a cent.                                                    *)

\* REFERRER_FREE_TOLERANCE is half a cent: of a whole number of cents only
\* zero is within it
FreeLine(actual_total) == Abs(actual_total) * 1000 <= 5 * 100

\* what one pass of the loop over referrer_sales adds to commission_total: the
\* addition of the paid branch, then the addition made for every line
LineCommission(sale) ==
    LET retail_price   == RetailPrice(sale)
        sold_quantity  == OrZero(sale.sold_quantity)
        actual_total   == OrZero(sale.sold_value)
        return_quantity == OrZero(sale.return_quantity)
        net_quantity   == sold_quantity - return_quantity
        effective_net_quantity == Max(net_quantity, 0)
        paid_branch    == IF sold_quantity > 0 /\ ~FreeLine(actual_total)
                             /\ retail_price > 0 /\ effective_net_quantity > 0
                          THEN retail_price * effective_net_quantity * 25 ELSE 0
        every_line     == IF net_quantity > 0 /\ retail_price # 0
                          THEN retail_price * net_quantity * 25 ELSE 0
    IN  paid_branch + every_line

\* sales_qs.filter(referrer=referrer): the positions of the referrer's lines of
\* the date range
ReferrerSales(referrer, range) ==
    {i \in 1..Len(sales) : /\ sales[i].referrer = referrer
                           /\ sales[i].date >= range[1]
                           /\ sales[i].date <= range[2]}

\* what one pass of the loop adds to paid_quantity and to freebie_quantity
LinePaidQuantity(sale) ==
    IF OrZero(sale.sold_quantity) > 0 /\ ~FreeLine(OrZero(sale.sold_value))
    THEN Max(OrZero(sale.sold_quantity) - OrZero(sale.return_quantity), 0) ELSE 0

LineFreebieQuantity(sale) ==
    IF OrZero(sale.sold_quantity) > 0 /\ FreeLine(OrZero(sale.sold_value))
    THEN OrZero(sale.sold_quantity) ELSE 0

\* referrer_detail: the financials of the referrer over the date range
referrer_detail(referrer, start_param, end_param, tdy) ==
    LET range == get_sales_date_range(start_param, end_param, tdy)
        lines == ReferrerSales(referrer, range)
    IN  [commission       |-> SumOver(lines, [i \in lines |-> LineCommission(sales[i])]),
         paid_quantity    |-> SumOver(lines, [i \in lines |-> LinePaidQuantity(sales[i])]),
         freebie_quantity |-> SumOver(lines, [i \in lines |-> LineFreebieQuantity(sales[i])]),
         lines            |-> lines]

\* a GET of referrer_detail
CallReferrerDetail(referrer, start_param, end_param) ==
    /\ call = NoCall
    /\ call' = [op |-> "referrer_detail", referrer |-> referrer,
                result |-> referrer_detail(referrer, start_param, end_param, today)]
    /\ UNCHANGED <<config, snapshots, sales, order_items, today, cache, speed_call,
                   proj_call, alerts_call>>

MaxCommissionRows == 3

\* the retail price of p1 is 100.00
CommissionRetail == 10000

CommissionRow(v, date, q, rq, sv, r) ==
    [v |-> v, date |-> date, sold_quantity |-> Some(q), return_quantity |-> rq,
     sold_value |-> Some(sv), return_value |-> None, order_number |-> "o1",
     referrer |-> r]

\* the lines of the test (2 units for 150.00, a free unit, a unit for 90.00,
\* a unit of another referrer, a unit without referrer), a line with a unit
\* returned, a line returned whole, a line of a product without retail price,
\* and a line outside the date range
CommissionRows ==
    {CommissionRow("v1", SalesViewDay, 2, None, 15000, "r1"),
     CommissionRow("v1", SalesViewDay, 1, None, 0, "r1"),
     CommissionRow("v1", SalesViewDay, 1, None, 9000, "r1"),
     CommissionRow("v1", SalesViewDay, 1, None, 10000, "r2"),
     CommissionRow("v1", SalesViewDay, 1, None, 10000, NoReferrer),
     CommissionRow("v1", SalesViewDay, 2, Some(1), 15000, "r1"),
     CommissionRow("v1", SalesViewDay, 1, Some(1), 9000, "r1"),
     CommissionRow("v3", SalesViewDay, 1, None, 5000, "r1"),
     CommissionRow("v1", ProjToday, 1, None, 9000, "r1")}

InitCommission ==
    /\ config = [DefaultConfig EXCEPT !.retail_price =
                    [p \in Products |-> IF p = "p1" THEN Some(CommissionRetail) ELSE None]]
    /\ snapshots = <<>>
    /\ sales \in SeqsUpTo(CommissionRows, MaxCommissionRows)
    /\ order_items = <<>>
    /\ today = ProjToday
    /\ cache = EmptyCache
    /\ speed_call = NoCall
    /\ proj_call = NoCall
    /\ alerts_call = NoCall
    /\ call = NoCall

NextCommission ==
    \E referrer \in ReferrerRows :
        CallReferrerDetail(referrer, [kind |-> "absent"], [kind |-> "absent"])

SpecCommission == InitCommission /\ [][NextCommission]_vars

\* the paid lines of a result: a quantity sold and a price paid
PaidLines(result) ==
    {i \in result.lines : /\ OrZero(sales[i].sold_quantity) > 0
                          /\ OrZero(sales[i].sold_value) # 0}

\* 25% of the retail price times the net quantity of line i
QuarterOfRetail(i) ==
    RetailPrice(sales[i]) * 25
        * Max(OrZero(sales[i].sold_quantity) - OrZero(sales[i].return_quantity), 0)

\* C22: the commission of referrer_detail is 25% of the retail price times the
\* net quantity, summed once over the paid lines of the referrer in the date
\* range; free lines add nothing.
C22_CommissionOnce ==
    call.op = "referrer_detail" =>
        call.result.commission
            = SumOver(PaidLines(call.result),
                      [i \in PaidLines(call.result) |-> QuarterOfRetail(i)])

-----------------------------------------------------------------------------
(* The stock of each week of a window (_speed_for_window)                    *)

\* had_stock in each pass of the last loop over week_starts
WeeksHadStock(v, window_weeks, tdy) ==
    LET week_start_today == WeekStart(tdy)
        start_week == week_start_today - DaysPerWeek * (window_weeks - 1)
        inventory  == InventoryByWeek(SpeedEvents(v), start_week, window_weeks, 1,
                          [idx |-> 1, current_inv |-> 0, seen_snapshot |-> FALSE])
    IN  [i \in 1..window_weeks |->
            HadStock(SalesByWeek(RowsOf(sales, v), start_week + DaysPerWeek * (i - 1),
                                 start_week, week_start_today),
                     inventory[i])]

\* a call of _speed_for_window, with had_stock of each of its weeks
CallSpeedWindow(v, window_weeks, tdy) ==
    /\ call' = [op |-> "window", v |-> v, window_weeks |-> window_weeks, today |-> tdy,
                start_week |-> WeekStart(tdy) - DaysPerWeek * (window_weeks - 1),
                had_stock |-> WeeksHadStock(v, window_weeks, tdy),
                result |-> speed_for_window(v, window_weeks, tdy)]
    /\ UNCHANGED <<config, snapshots, sales, order_items, today, cache, speed_call,
                   proj_call, alerts_call>>

\* weeks, snapshots and sales of the window specification
MaxWindowWeeks == 3
MaxWindowSnapshots == 2
MaxWindowSales == 1

\* one snapshot date a week (Wednesday); the sale of an even week precedes it
\* (Monday), the sale of an odd week follows it (Friday)
WindowSnapshotDates == {DaysPerWeek * w + 2 : w \in 0..(MaxWindowWeeks - 1)}

WindowSaleDates ==
    {DaysPerWeek * w + (IF w % 2 = 0 THEN 0 ELSE 4) : w \in 0..(MaxWindowWeeks - 1)}

InitWindow ==
    /\ snapshots \in SeqsUpTo(SnapshotRows({"v1"}, WindowSnapshotDates, {0, 2}),
                               MaxWindowSnapshots)
    /\ sales \in SeqsUpTo(SaleRows({"v1"}, WindowSaleDates, {0 - 1, 0, 2}), MaxWindowSales)
    /\ order_items = <<>>
    /\ today = DaysPerWeek * MaxWindowWeeks - 1
    /\ config = DefaultConfig
    /\ cache = EmptyCache
    /\ speed_call = NoCall
    /\ proj_call = NoCall
    /\ alerts_call = NoCall
    /\ call = NoCall

NextWindow ==
    \E window_weeks \in 1..MaxWindowWeeks :
        NoCallYet /\ CallSpeedWindow("v1", window_weeks, today)

SpecWindow == InitWindow /\ [][NextWindow]_vars

\* the snapshots of v dated at or before day we, and the most recent of them
\* (of two of the same date, the later row)
SnapshotsUpTo(v, we) ==
    {i \in 1..Len(snapshots) : snapshots[i].v = v /\ snapshots[i].date <= we}

MostRecentSnapshot(v, we) ==
    CHOOSE i \in SnapshotsUpTo(v, we) : \A j \in SnapshotsUpTo(v, we) :
        \/ snapshots[j].date < snapshots[i].date
        \/ (snapshots[j].date = snapshots[i].date /\ j <= i)

\* the week starting at ws has a sale of v
WeekHasSale(v, ws) ==
    \E i \in 1..Len(sales) : /\ sales[i].v = v
                             /\ ws <= sales[i].date
                             /\ sales[i].date <= ws + 6

\* the i-th week of the window of a call
CallWeek(i) == call.start_week + DaysPerWeek * (i - 1)

\* C23 as stated: a week had stock iff the count of the most recent snapshot at
\* or before its end is above 0, or, with no such snapshot, iff it has a sale.
C23_FromSnapshotCount ==
    call.op = "window" =>
        \A i \in 1..call.window_weeks :
            call.had_stock[i]
                = IF SnapshotsUpTo(call.v, CallWeek(i) + 6) = {}
                  THEN WeekHasSale(call.v, CallWeek(i))
                  ELSE snapshots[MostRecentSnapshot(call.v, CallWeek(i) + 6)]
                           .inventory_count > 0

\* C23: a week had stock iff the count of the most recent snapshot at or before
\* its end, less the units sold from the day of that snapshot to the end of the
\* week, is above 0; with no such snapshot, iff the units sold in the week sum
\* to more than 0.
C23_HadStock ==
    call.op = "window" =>
        \A i \in 1..call.window_weeks :
            call.had_stock[i]
                = IF KnownStockAtWeekEnd(call.v, CallWeek(i)) = None
                  THEN UnitsSoldInWeek(call.v, CallWeek(i)) > 0
                  ELSE KnownStockAtWeekEnd(call.v, CallWeek(i)).val > 0

\* a snapshot of 2 units in a week with stock, a sale of 2 units in the week
\* after it, and a later week of the window without stock
C23_Witness ==
    /\ call.op = "window"
    /\ Len(snapshots) = 1
    /\ snapshots[1].inventory_count = 2
    /\ Len(sales) = 1
    /\ sales[1].sold_quantity = 2
    /\ sales[1].date > snapshots[1].date
    /\ \E i \in 1..call.window_weeks :
          /\ CallWeek(i) > sales[1].date
          /\ ~call.had_stock[i]
    /\ \E i \in 1..call.window_weeks : call.had_stock[i]

-----------------------------------------------------------------------------
(* The month of a pending order item in the two projections *)

\* the pending order items (date_arrived null)
PendingItems == {i \in 1..Len(order_items) : order_items[i].date_arrived = None}

\* the month to which the claim attributes a pending item on day tdy: a month
\* after tdy when its expected date is past, else the month of that date
AttributedAsStated(oi, mon, tdy) ==
    IF oi.date_expected < tdy THEN mon > tdy ELSE mon = MonthStart(oi.date_expected)

\* C24: in compute_variant_projection and in the forecast of product_detail a
\* pending order item whose expected date is past is attributed to a month
\* after the current date, one whose expected date is to come to the month of
\* that date, and the two attribute every pending item to the same month.
C24_PendingAttribution ==
    \A i \in PendingItems :
        /\ proj_call.op = "proj"
               => /\ AttributedAsStated(order_items[i], RestockMonth(order_items[i]), today)
                  /\ RestockMonth(order_items[i])
                         = MonthStart(EffectiveDate(order_items[i], today))
        /\ call.op = "detail"
               => AttributedAsStated(order_items[i],
                                     MonthStart(EffectiveDate(order_items[i], today)), today)

-----------------------------------------------------------------------------
(* A product_detail request in steps, beside the writes of other requests    *)
(*                                                                          *)
(* The request in progress is held in call: the cache key it has reached,   *)
(* whether it is about to read or to store, and the value it has computed.  *)

\* the three cached results in the order of the handler
CacheKeyOrder == <<"safe", "proj", "health">>

\* the result stored under key k, computed from the rows of product p
ComputeEntry(k, p) ==
    IF k = "safe" THEN compute_safe_stock(p, today)
    ELSE IF k = "proj" THEN compute_variant_projection(p, None, today)
    ELSE compute_product_health(p, today)

\* the request after the i-th key: at the next key, or finished
AfterKey(req, i) ==
    IF i < Len(CacheKeyOrder)
    THEN [req EXCEPT !.key = i + 1, !.phase = "get", !.value = None]
    ELSE [op |-> "served", product |-> req.product]

\* the request reaches the handler
BeginDetail(p) ==
    /\ call = NoCall
    /\ call' = [op |-> "request", product |-> p, key |-> 1, phase |-> "get",
                value |-> None]
    /\ UNCHANGED <<config, snapshots, sales, order_items, today, cache, speed_call,
                   proj_call, alerts_call>>

\* cache.get(key): a hit moves on to the next key; on a miss the result is
\* computed from the rows as they are now
DetailGet ==
    /\ call.op = "request"
    /\ call.phase = "get"
    /\ call' = IF cache[call.product][CacheKeyOrder[call.key]] # None
               THEN AfterKey(call, call.key)
               ELSE [call EXCEPT !.phase = "set",
                                 !.value = Some(ComputeEntry(CacheKeyOrder[call.key],
                                                             call.product))]
    /\ UNCHANGED <<config, snapshots, sales, order_items, today, cache, speed_call,
                   proj_call, alerts_call>>

\* cache.set(key, value, cache_ttl) with the value computed before
DetailSet ==
    /\ call.op = "request"
    /\ call.phase = "set"
    /\ cache' = [cache EXCEPT ![call.product][CacheKeyOrder[call.key]] = call.value]
    /\ call' = AfterKey(call, call.key)
    /\ UNCHANGED <<config, snapshots, sales, order_items, today, speed_call, proj_call,
                   alerts_call>>

\* rows of the one product of the race specification
RaceSaleRows == {row \in CacheSaleRows : row.v = "v1" /\ row.referrer = NoReferrer}

RaceSnapshotRows == {row \in CacheSnapshotRows : row.v = "v1"}

InitRace == InitCache

\* one request for p1, and writes to the rows of p1 at any moment
NextRace ==
    \/ BeginDetail("p1")
    \/ DetailGet
    \/ DetailSet
    \/ \E row \in RaceSaleRows : CreateSale(row)
    \/ \E i \in 1..MaxCacheRows, row \in RaceSaleRows : UpdateSale(i, row)
    \/ \E i \in 1..MaxCacheRows : DeleteSale(i)
    \/ \E row \in RaceSnapshotRows : CreateSnapshot(row)
    \/ \E i \in 1..MaxCacheRows : DeleteSnapshot(i)
    \/ \E row \in CacheOrderItemRows : CreateOrderItem(row)
    \/ \E i \in 1..MaxCacheRows, row \in CacheOrderItemRows : UpdateOrderItem(i, row)
    \/ \E i \in 1..MaxCacheRows : DeleteOrderItem(i)

SpecRace == InitRace /\ [][NextRace]_vars

\* no request is between reading and storing
NoRequestInProgress == call.op # "request"

\* the entry of p under key k, when present, is what the rows of p give now
EntryCurrent(p, k) == cache[p][k] # None => cache[p][k].val = ComputeEntry(k, p)

\* C25: once a product_detail request for P and the writes to P's rows made
\* during it have finished, no cache entry of P holds a result computed from
\* the rows as they were before a write.
C25_NoStaleEntryAfterRace ==
    NoRequestInProgress =>
        \A k \in {"safe", "proj", "health"} : EntryCurrent("p1", k)

-----------------------------------------------------------------------------
(* Cached results against the rows, one request or write at a time *)

\* C26: after any sequence of writes and requests made one at a time, every
\* cache entry present for a product (the entry the next product_detail
\* request serves) equals what is computed from the product's current rows.
C26_ServedEntriesCurrent ==
    \A p \in Products : \A k \in {"safe", "proj", "health"} :
        cache[p][k] # None => cache[p][k] = Some(ComputeEntry(k, p))

-----------------------------------------------------------------------------
(* The sub-scores of the confidence score *)

\* C27: each of the five sub-scores of compute_product_confidence is 0, 1 or
\* 2, and is 1 whenever the value it scores, or the average it is compared
\* with, is missing.
C27_SubScores ==
    ConfidenceDone =>
        LET a == call.args
            c == call.result.components
        IN  /\ \A k \in {"sell_through", "sales_speed", "returns", "discount", "margin"} :
                   c[k] \in {0, 1, 2}
            /\ a.months_to_sell_out = None => c.sell_through = 1
            /\ (a.sales_speed = None \/ a.baselines.avg_sales_speed = None)
                   => c.sales_speed = 1
            /\ (a.return_rate = None \/ a.baselines.avg_return_rate = None)
                   => c.returns = 1
            /\ (a.discount_pct = None \/ a.baselines.avg_discount_pct = None)
                   => c.discount = 1
            /\ (a.margin_pct = None \/ a.baselines.avg_margin_pct = None)
                   => c.margin = 1

\* no months to sell out, no average sales speed and no average discount, with
\* a return rate and a margin that are scored 2 and 0
C27_Witness ==
    /\ ConfidenceDone
    /\ call.args.months_to_sell_out = None
    /\ call.args.sales_speed # None
    /\ call.args.baselines.avg_sales_speed = None
    /\ call.args.discount_pct # None
    /\ call.args.baselines.avg_discount_pct = None
    /\ call.result.components.sell_through = 1
    /\ call.result.components.sales_speed = 1
    /\ call.result.components.discount = 1
    /\ call.result.components.returns = 2
    /\ call.result.components.margin = 0

-----------------------------------------------------------------------------
(* What the level and the score of the confidence do not read *)

\* the arguments a with restock_lead_months, inventory_units and gift_rate
\* replaced by those of extra
WithExtras(a, extra) ==
    [a EXCEPT !.restock_lead_months = extra[1], !.inventory_units = extra[2],
              !.gift_rate = extra[3]]

\* C28: the level and the score of compute_product_confidence are the same
\* for arguments that differ only in restock_lead_months, inventory_units and
\* gift_rate, and so are the sub-scores; only the advisories read them.
C28_ExtrasDoNotScore ==
    ConfidenceDone =>
        \A extra \in ConfidenceExtras :
            LET other == compute_product_confidence(WithExtras(call.args, extra))
            IN  /\ other.level = call.result.level
                /\ other.score = call.result.score
                /\ other.components = call.result.components

\* a call whose advisories change with the three arguments (restock warning,
\* fast seller with low stock, margin message)
C28_Witness ==
    /\ ConfidenceDone
    /\ call.result.level = "Low"
    /\ \E extra \in ConfidenceExtras :
          LET other == compute_product_confidence(WithExtras(call.args, extra))
          IN  /\ other.advisories # call.result.advisories
              /\ Len(other.advisories) # Len(call.result.advisories)
              /\ other.score = call.result.score

-----------------------------------------------------------------------------
(* The arrival of an order item *)

\* C29: an order item whose date_arrived is set keeps that date in every
\* step that keeps the item: it does not return to pending and its arrival
\* date does not change.
C29_ArrivalOneWay ==
    [][Len(order_items') = Len(order_items)
       => \A i \in 1..Len(order_items) :
              order_items[i].date_arrived # None
                  => order_items'[i].date_arrived = order_items[i].date_arrived]_vars

-----------------------------------------------------------------------------
(* The health index of a product (compute_product_health)                    *)
(*                                                                          *)
(* The floats of the code are exact fractions here, kept in lowest terms.   *)
(* Sale rows carry sold_quantity and return_quantity, None when null.       *)

RECURSIVE Gcd(_, _)
Gcd(a, b) == IF b = 0 THEN a ELSE Gcd(b, a % b)

\* n / d in lowest terms with a positive denominator
Reduced(n, d) ==
    LET g == Gcd(Abs(n), Abs(d))
    IN  IF d > 0 THEN Frac(n \div g, d \div g) ELSE Frac((0 - n) \div g, (0 - d) \div g)

FracAdd(f, g) == Reduced(f[1] * g[2] + g[1] * f[2], f[2] * g[2])

FracSub(f, g) == Reduced(f[1] * g[2] - g[1] * f[2], f[2] * g[2])

FracMul(f, g) == Reduced(f[1] * g[1], f[2] * g[2])

FracDiv(f, g) == Reduced(f[1] * g[2], f[2] * g[1])

\* normalize(value, best, worst)
normalize(value, best, worst) ==
    IF FracEq(best, worst) THEN Frac(100, 1)
    ELSE LET pct100 == FracMul(FracDiv(FracSub(value, worst), FracSub(best, worst)),
                               Frac(100, 1))
         IN  IF FracLt(pct100, Frac(0, 1)) THEN Frac(0, 1)
             ELSE IF FracLt(Frac(100, 1), pct100) THEN Frac(100, 1)
             ELSE pct100

\* a product without variants beside those of the catalogue
HealthProducts == {"p0", "p1", "p2"}

\* simplify_type(v.product.type) and v.size in the catalogue
SimplifiedType(p) == IF p = "p2" THEN "gi" ELSE "rg"

VariantSize(v) == IF v = "v1" THEN "M" ELSE IF v = "v2" THEN "XL" ELSE "A1"

\* CORE_SIZES.get(category, [])
CoreSizes(category) ==
    IF category = "gi" THEN {"A1", "A2", "F1", "F2"}
    ELSE IF category \in {"rg", "dk", "other"} THEN {"S", "M", "L"}
    ELSE {}

\* Sum of a quantity field over the sales of the variants dated since a day
SalesSince(vs, since) ==
    {i \in 1..Len(sales) : sales[i].v \in vs /\ sales[i].date >= since}

SoldSince(vs, since) ==
    SumOver(SalesSince(vs, since),
            [i \in SalesSince(vs, since) |-> OrZero(sales[i].sold_quantity)])

ReturnedSince(vs, since) ==
    SumOver(SalesSince(vs, since),
            [i \in SalesSince(vs, since) |-> OrZero(sales[i].return_quantity)])

\* the arrival dates of the order items of the variants
ArrivalDates(vs) ==
    {order_items[i].date_arrived.val :
        i \in {j \in 1..Len(order_items) : /\ order_items[j].v \in vs
                                           /\ order_items[j].date_arrived # None}}

\* the weights of the seven sub-scores, in hundredths
HealthWeights ==
    [sv |-> 25, str |-> 20, cd |-> 15, age |-> 10, core |-> 10, rs |-> 10, rr |-> 5]

\* the seven sub-scores for a product with variants
HealthSubscores(p, tdy) ==
    LET vs           == VariantsOf(p)
        three_mo_ago == AddMonths(tdy, 0 - 3)
        six_mo_ago   == AddMonths(tdy, 0 - 6)
        year_ago     == AddMonths(tdy, 0 - 12)
        total_sold   == SoldSince(vs, three_mo_ago)
        days         == IF tdy - three_mo_ago = 0 THEN 1 ELSE tdy - three_mo_ago
        avg_daily    == Reduced(total_sold, days)
        cat_avg_daily == Reduced(total_sold, Cardinality(vs) * days)
        sold6        == SoldSince(vs, six_mo_ago)
        stock6       == SumOver(vs, [v \in vs |-> LatestInventory(v)])
        avail6       == IF sold6 + stock6 = 0 THEN 1 ELSE sold6 + stock6
        cov_days     == IF sold6 # 0 THEN Reduced(stock6 * days, 2 * sold6)
                        ELSE Frac(90, 1)
        first        == IF ArrivalDates(vs) = {} THEN tdy ELSE MinOf(ArrivalDates(vs))
        core_sizes   == CoreSizes(SimplifiedType(p))
        core_in_stock == Cardinality({v \in vs : /\ VariantSize(v) \in core_sizes
                                                 /\ LatestInventory(v) > 0})
        core_pct     == IF core_sizes # {} THEN Reduced(core_in_stock, Cardinality(core_sizes))
                        ELSE Frac(0, 1)
        restocks     == Cardinality({d \in ArrivalDates(vs) : d >= year_ago})
        rrate        == IF sold6 # 0 THEN Reduced(ReturnedSince(vs, six_mo_ago), sold6)
                        ELSE Frac(0, 1)
    IN  [sv   |-> normalize(avg_daily, FracMul(Frac(2, 1), cat_avg_daily), Frac(0, 1)),
         str  |-> normalize(Reduced(sold6, avail6), Frac(8, 10), Frac(2, 10)),
         cd   |-> normalize(cov_days, Frac(14, 1), Frac(90, 1)),
         age  |-> normalize(Frac(tdy - first, 1), Frac(0, 1), Frac(365, 1)),
         core |-> normalize(core_pct, Frac(1, 1), Frac(0, 1)),
         rs   |-> normalize(Frac(restocks, 1), Frac(12, 1), Frac(0, 1)),
         rr   |-> FracSub(Frac(100, 1), normalize(rrate, Frac(0, 1), Frac(3, 10)))]

\* the weighted aggregate of the sub-scores
HealthOverall(s) ==
    LET w == HealthWeights
        t(k) == FracMul(s[k], Frac(w[k], 100))
    IN  FracAdd(t("sv"), FracAdd(t("str"), FracAdd(t("cd"), FracAdd(t("age"),
            FracAdd(t("core"), FracAdd(t("rs"), t("rr")))))))

\* compute_product_health(product, variants, simplify_type) for the variants of
\* p: the overall score, or the IndexError of variants[0] on an empty queryset
product_health(p, tdy) ==
    IF VariantsOf(p) = {} THEN [raised |-> "IndexError"]
    ELSE [raised |-> "no", subscores |-> HealthSubscores(p, tdy),
          overall_score |-> Round1(HealthOverall(HealthSubscores(p, tdy)))]

\* a call of compute_product_health, as product_detail makes it when
\* product_health_<id> is not cached
CallProductHealth(p) ==
    /\ call = NoCall
    /\ call' = [op |-> "health", product |-> p, result |-> product_health(p, today)]
    /\ UNCHANGED <<config, snapshots, sales, order_items, today, cache, speed_call,
                   proj_call, alerts_call>>

MaxHealthSales == 2

InitHealth ==
    /\ config = DefaultConfig
    /\ snapshots \in SeqsUpTo(CacheSnapshotRows, MaxCacheRows)
    /\ sales \in SeqsUpTo(SalesViewRows, MaxHealthSales)
    /\ order_items \in SeqsUpTo(CacheOrderItemRows, MaxCacheRows)
    /\ today = ProjToday
    /\ cache = EmptyCache
    /\ speed_call = NoCall
    /\ proj_call = NoCall
    /\ alerts_call = NoCall
    /\ call = NoCall

NextHealth == \E p \in HealthProducts : CallProductHealth(p)

SpecHealth == InitHealth /\ [][NextHealth]_vars

\* no snapshot and no sale of a variant of p is stored
NoSnapshotsNoSales(p) ==
    /\ \A i \in 1..Len(snapshots) : snapshots[i].v \notin VariantsOf(p)
    /\ \A i \in 1..Len(sales) : sales[i].v \notin VariantsOf(p)

\* C30: for a product without snapshots and without sales, a product without
\* variants included, compute_product_health raises nothing and returns an
\* overall score from 0 to 100.
C30_HealthWellDefined ==
    (call.op = "health" /\ NoSnapshotsNoSales(call.product))
        => /\ call.result.raised = "no"
           /\ ~FracLt(call.result.overall_score, Frac(0, 1))
           /\ ~FracLt(Frac(100, 1), call.result.overall_score)

====
